---- MODULE Spec2Model ----
(***************************************************************************)
(* A model of bstseal-core: the varint codec (utils.rs), the raw codec     *)
(* (raw.rs), the canonical Huffman codec (huff.rs), the block codec        *)
(* (block_coder.rs), the parallel framing (encode.rs), the integrity       *)
(* footer (integrity.rs), the code book cache shared by the decoder        *)
(* threads (huff.rs), the license secret (license.rs) and the callers that *)
(* verify a footer before they decode (bstseal-cli, bstseal-ffi).          *)
(*                                                                         *)
(* Bytes are the integers 0..255 and byte strings are sequences of them.   *)
(* A u64 is kept as its ten base-128 digits, least significant first (the  *)
(* tenth digit holds the one remaining bit), so that 64-bit values and     *)
(* their wrap-around are exact although a model checker's integers are     *)
(* narrower.  u16 arithmetic is done modulo 2^16.                          *)
(***************************************************************************)
EXTENDS Integers, Sequences, FiniteSets, TLC

VARIABLES
    overflow_checks, \* build profile: TRUE = arithmetic overflow panics (debug)
    input,           \* encode_parallel: the caller's bytes
    pc,              \* position of the encode_parallel / decode_parallel caller
    enc_results,     \* encode_parallel: results[i], "pending" until task i is done
    final_data,      \* encode_parallel: final_data; then decode_parallel: encoded_data
    boundaries,      \* decode_parallel: boundaries, a sequence of <<start, end>>
    dec_state,       \* decode_parallel: per block task "pending" or its result
    dec_order,       \* decode_parallel: block indices in the order the tasks completed
    enc_order,       \* encode_parallel: chunk indices in the order the tasks completed
    saved_error,     \* decode_parallel: the error the parallel collect keeps
    result,          \* what encode_parallel / decode_parallel returned
    b_input,         \* block codec: the input of encode_block
    b_block,         \* block codec: the block bytes given to decode_block
    b_result,        \* block codec: what decode_block returned
    b_pc,            \* block codec: position of the caller
    f_data,          \* footer: the payload given to add_footer
    f_wrapped,       \* footer: the bytes given to verify_footer
    f_result,        \* footer: what verify_footer returned
    f_pc,            \* footer: position of the caller
    CODE_CACHE,      \* huff.rs: the process-wide map from a lengths vector to an Arc
    arcs,            \* the heap of Arc<Vec<FastDecodeEntry>>: strong count and data
    thr,             \* per decoder thread: position in read_lengths, key, Arc held
    rwlock,          \* the RwLock of CODE_CACHE: the threads that hold it for reading, for writing
    archive,         \* the serialized codebooks of the blocks the threads decode
    next_block,      \* number of blocks of the archive handed to a thread so far
    caller,          \* a CLI command or bstseal_decode: its inputs, position, outputs
    RUNTIME_SECRET,  \* license.rs: the OnceCell, <<>> while empty, else <<secret>>
    lic_env,         \* LICENSE_SECRET in the environment and at compile time
    lic_thr,         \* per thread: its position in set_license_secret, the argument
    lic_sets,        \* the set_license_secret calls that reached the cell, in order
    lic_uses,        \* the verify_license calls: the secret each used, its result
    cb_input,        \* code book: the block whose frequencies CanonicalCode::new gets
    cb_code,         \* code book: what CanonicalCode::new returned
    cb_bytes,        \* code book: the bytes write_lengths wrote
    cb_read,         \* code book: what read_lengths returned on those bytes
    cb_pc,           \* code book: position of the caller
    h_input,         \* huff::encode: the input
    h_payload,       \* huff::decode: the input (the code book, then the bitstream)
    h_expect,        \* huff::decode: expected_size
    h_tree,          \* huff::decode: huff_tree, with the reader's position
    h_st,            \* huff::decode: byte_pos, bit_pos, decoded, out and the loop's status
    h_lookups,       \* huff::decode: the table lookups of the last pass of the loop
    h_pc,            \* huff: position of the caller
    v_value,         \* varint: the u64 given to write_varint_u64
    v_suffix,        \* varint: the bytes that follow the varint in the reader's slice
    v_written,       \* varint: the bytes write_varint_u64 wrote
    v_bytes,         \* varint: the slice given to read_varint_u64
    v_read,          \* varint: what read_varint_u64 returned
    v_pc             \* varint: position of the caller

stream_vars == <<input, pc, enc_results, final_data, boundaries, dec_state,
                 dec_order, enc_order, saved_error, result>>
block_vars  == <<b_input, b_block, b_result, b_pc>>
footer_vars == <<f_data, f_wrapped, f_result, f_pc>>
cache_vars  == <<CODE_CACHE, arcs, thr, rwlock, archive, next_block>>
license_vars == <<RUNTIME_SECRET, lic_env, lic_thr, lic_sets, lic_uses>>
codebook_vars == <<cb_input, cb_code, cb_bytes, cb_read, cb_pc>>
huff_vars == <<h_input, h_payload, h_expect, h_tree, h_st, h_lookups, h_pc>>
varint_vars == <<v_value, v_suffix, v_written, v_bytes, v_read, v_pc>>
vars == <<overflow_checks, stream_vars, block_vars, footer_vars, cache_vars, caller,
          license_vars, codebook_vars, huff_vars, varint_vars>>

\* What the steps of one component leave alone: the build profile and the
\* variables of the other components.
not_stream == <<overflow_checks, block_vars, footer_vars, cache_vars, caller,
                license_vars, codebook_vars, huff_vars, varint_vars>>
not_block  == <<overflow_checks, stream_vars, footer_vars, cache_vars, caller,
                license_vars, codebook_vars, huff_vars, varint_vars>>
not_footer == <<overflow_checks, stream_vars, block_vars, cache_vars, caller,
                license_vars, codebook_vars, huff_vars, varint_vars>>
not_cache  == <<overflow_checks, stream_vars, block_vars, footer_vars, caller,
                license_vars, codebook_vars, huff_vars, varint_vars>>
not_caller == <<overflow_checks, block_vars, footer_vars, cache_vars, license_vars,
                codebook_vars, huff_vars, varint_vars>>
not_license == <<overflow_checks, stream_vars, block_vars, footer_vars, cache_vars,
                 caller, codebook_vars, huff_vars, varint_vars>>
not_codebook == <<overflow_checks, stream_vars, block_vars, footer_vars, cache_vars,
                  caller, license_vars, huff_vars, varint_vars>>
not_huff == <<overflow_checks, stream_vars, block_vars, footer_vars, cache_vars,
              caller, license_vars, codebook_vars, varint_vars>>
not_varint == <<overflow_checks, stream_vars, block_vars, footer_vars, cache_vars,
                caller, license_vars, codebook_vars, huff_vars>>

(***************************************************************************)
(* Program constants.                                                      *)
(***************************************************************************)
BLOCK_SIZE == 4096
MAX_CODE_LEN == 15
FAST_DECODE_BITS == 16
HASH_SIZE == 32
TABLE_SIZE == 2 ^ FAST_DECODE_BITS

(***************************************************************************)
(* Generic helpers.                                                        *)
(***************************************************************************)
Min(a, b) == IF a < b THEN a ELSE b

\* n applications of the loop body F to the loop state s.  The recursion
\* halves n, so a loop of thousands of iterations nests only a few levels.
RECURSIVE Iter(_, _, _)
Iter(F(_), s, n) ==
    IF n = 0 THEN s
    ELSE IF n = 1 THEN F(s)
    ELSE LET h == Iter(F, s, n \div 2)
         IN  IF h = h THEN Iter(F, h, n - (n \div 2)) ELSE h

\* TRUE.  It evaluates v, so that the uses of v that follow share one value.
Eval(v) == v = v

(***************************************************************************)
(* u64 values as ten base-128 digits; the top digit is one bit wide.       *)
(***************************************************************************)
U64Digits == 10
DigitBase(i) == IF i = U64Digits THEN 2 ELSE 128
U64Zero == [i \in 1 .. U64Digits |-> 0]
\* A length or index (below 2^31) as a u64.
ToU64(n) ==
    [i \in 1 .. U64Digits |->
        IF i <= 4 THEN (n \div (128 ^ (i - 1))) % 128
        ELSE IF i = 5 THEN n \div (128 ^ 4)
        ELSE 0]
\* Whether a u64 is below 2^28, and then its value.
FitsNat(d) == \A i \in 5 .. U64Digits : d[i] = 0
ToNat(d) == d[1] + 128 * d[2] + 128 * 128 * d[3] + 128 * 128 * 128 * d[4]

RECURSIVE AddCarry(_, _, _, _)
AddCarry(a, b, i, carry) ==
    IF i > U64Digits THEN [digits |-> <<>>, overflow |-> carry = 1]
    ELSE LET t == a[i] + b[i] + carry
             rest == AddCarry(a, b, i + 1, t \div DigitBase(i))
         IN  [digits |-> <<t % DigitBase(i)>> \o rest.digits,
              overflow |-> rest.overflow]
\* a + b in 64 bits: the wrapped sum and whether it overflowed.
AddU64(a, b) == AddCarry(a, b, 1, 0)

\* a > b for two u64.
GtU64(a, b) ==
    \E i \in 1 .. U64Digits :
        /\ a[i] > b[i]
        /\ \A j \in (i + 1) .. U64Digits : a[j] = b[j]

(***************************************************************************)
(* utils.rs: the varint codec.                                             *)
(***************************************************************************)
RECURSIVE write_varint_u64(_)
write_varint_u64(value) ==
    LET byte == value[1]                        \* value & 0x7F
        shifted == Tail(value) \o <<0>>         \* value >>= 7
    IN  IF shifted = U64Zero
        THEN <<byte>>
        ELSE <<byte + 128>> \o write_varint_u64(shifted)

\* The loop of read_varint_u64 without the limit of ten bytes.
RECURSIVE ReadVarintFrom_no_limit(_, _, _)
ReadVarintFrom_no_limit(r, i, value) ==
    IF i > Len(r) THEN [ok |-> FALSE, value |-> U64Zero, n |-> 0]
    ELSE IF r[i] < 128
    THEN [ok |-> TRUE, n |-> i,
          value |-> IF i <= U64Digits THEN [value EXCEPT ![i] = (r[i] % 128) % DigitBase(i)]
                    ELSE value]
    ELSE ReadVarintFrom_no_limit(r, i + 1,
             IF i <= U64Digits THEN [value EXCEPT ![i] = (r[i] % 128) % DigitBase(i)]
             ELSE value)

\* The loop of read_varint_u64 with nine bytes at most.
RECURSIVE ReadVarintFrom_nine(_, _, _)
ReadVarintFrom_nine(r, i, value) ==
    IF i > Len(r) THEN [ok |-> FALSE, value |-> U64Zero, n |-> 0]
    ELSE IF i - 1 >= 9 THEN [ok |-> FALSE, value |-> U64Zero, n |-> 0]
    ELSE IF r[i] < 128
    THEN [ok |-> TRUE, value |-> [value EXCEPT ![i] = r[i] % 128], n |-> i]
    ELSE ReadVarintFrom_nine(r, i + 1, [value EXCEPT ![i] = r[i] % 128])

\* The loop of read_varint_u64 from byte i (1-based) with the value so far.
RECURSIVE ReadVarintFrom(_, _, _)
ReadVarintFrom(r, i, value) ==
    IF i > Len(r) THEN [ok |-> FALSE, value |-> U64Zero, n |-> 0]
    ELSE IF i - 1 >= 10 THEN [ok |-> FALSE, value |-> U64Zero, n |-> 0]
    ELSE LET val_part == r[i] % 128
             \* value |= val_part << shift, shift = 7 * (i - 1): the bits of
             \* val_part shifted past bit 63 are lost.
             v == [value EXCEPT ![i] = val_part % DigitBase(i)]
         IN  IF r[i] < 128
             THEN [ok |-> TRUE, value |-> v, n |-> i]
             ELSE ReadVarintFrom(r, i + 1, v)
read_varint_u64(r) == ReadVarintFrom(r, 1, U64Zero)

(***************************************************************************)
(* raw.rs                                                                  *)
(***************************************************************************)
raw_encode(in) == in
raw_decode(in) == in

(***************************************************************************)
(* huff.rs: CanonicalCode.                                                 *)
(***************************************************************************)
Symbol == 0 .. 255
NoCode == [code |-> 0, len |-> 0]              \* HuffCode::default()
ZeroLengths == [s \in Symbol |-> 0]            \* [0u8; 256]

\* The symbols that satisfy Keep, in ascending order (iter().enumerate()
\* followed by filter).
SymbolsWhere(Keep(_)) ==
    Iter(LAMBDA st : [i |-> st.i + 1,
                      out |-> IF Keep(st.i) THEN Append(st.out, st.i) ELSE st.out],
         [i |-> 0, out |-> <<>>], 256).out

\* BinaryHeap::push on the heap's vector: the items are
\* Reverse((freq, vec![symbol])), so an item rises while (freq, symbol) is
\* smaller than its parent's.
ItemLess(a, b) == a.f < b.f \/ (a.f = b.f /\ a.syms[1] < b.syms[1])
RECURSIVE SiftUp(_, _, _)
SiftUp(h, pos, item) ==
    IF pos = 1 THEN [h EXCEPT ![1] = item]
    ELSE LET parent == pos \div 2      \* (pos0 - 1) / 2 on 0-based positions
         IN  IF ~ItemLess(item, h[parent])
             THEN [h EXCEPT ![pos] = item]
             ELSE SiftUp([h EXCEPT ![pos] = h[parent]], parent, item)
HeapPush(h, item) == SiftUp(Append(h, item), Len(h) + 1, item)

\* combined.sort_by_key(|k| Reverse(k.0)): the stable sort by descending
\* frequency (equal frequencies keep their order).  Where all but the last
\* element are already in order (every pass after the first: the merged node
\* was pushed onto a sorted vector), the stable sort moves the last element
\* behind the elements that are not smaller; otherwise each element goes to
\* the position its rank gives it.
SortByFreqDesc(c) ==
    LET n == Len(c)
    IN  IF \A i \in 1 .. (n - 2) : c[i].f >= c[i + 1].f
        THEN LET k == Cardinality({i \in 1 .. (n - 1) : c[i].f >= c[n].f})
             IN  SubSeq(c, 1, k) \o <<c[n]>> \o SubSeq(c, k + 1, n - 1)
        ELSE LET pos == [i \in DOMAIN c |->
                          Cardinality({j \in DOMAIN c :
                              c[j].f > c[i].f \/ (c[j].f = c[i].f /\ j < i)}) + 1]
                 at == [p \in DOMAIN c |-> CHOOSE i \in DOMAIN c : pos[i] = p]
             IN  IF Eval(pos) /\ Eval(at) THEN [p \in DOMAIN c |-> c[at[p]]] ELSE c

\* `for &s in &syms { code_lengths[s as usize] += 1; }`
Deepen(code_lengths, syms) ==
    Iter(LAMBDA st : [i |-> st.i + 1,
                      cl |-> [st.cl EXCEPT ![syms[st.i]] = @ + 1]],
         [i |-> 1, cl |-> code_lengths], Len(syms)).cl

\* One pass of `while combined.len() > 1`.
MergeStep(st) ==
    IF Len(st.combined) <= 1 THEN st
    ELSE LET sorted == SortByFreqDesc(st.combined)
             n == Len(sorted)
             a == sorted[n]                     \* first pop
             b == sorted[n - 1]                 \* second pop
         IN  IF Eval(sorted)
             THEN [combined |-> Append(SubSeq(sorted, 1, n - 2),
                                  [f |-> a.f + b.f, syms |-> a.syms \o b.syms]),
                   code_lengths |-> Deepen(Deepen(st.code_lengths, a.syms), b.syms)]
             ELSE st

\* The code lengths CanonicalCode::new computes, before from_lengths.
NewLengths(freqs) ==
    LET active == SymbolsWhere(LAMBDA s : freqs[s] > 0)
        pushed == Iter(LAMBDA st :
                          [i |-> st.i + 1,
                           h |-> HeapPush(st.h, [f |-> freqs[active[st.i]],
                                                 syms |-> <<active[st.i]>>])],
                       [i |-> 1, h |-> <<>>], Len(active))
        merged == Iter(MergeStep,
                       [combined |-> pushed.h, code_lengths |-> ZeroLengths],
                       Len(active) - 1).code_lengths
    IN  IF Len(active) = 0 THEN ZeroLengths
        ELSE IF Len(active) = 1 THEN [ZeroLengths EXCEPT ![active[1]] = 1]
        ELSE \* length limiting
             Iter(LAMBDA st : [i |-> st.i + 1,
                               cl |-> [st.cl EXCEPT ![st.i] = Min(@, MAX_CODE_LEN)]],
                  [i |-> 0, cl |-> merged], 256).cl

\* The next_code table of from_lengths: `code = (code + bl_count[bits-1]) << 1`
\* in u16.  ovf records an overflow of the addition.
RECURSIVE NextCodes(_, _, _, _, _)
NextCodes(bl_count, bits, code, acc, ovf) ==
    IF bits > MAX_CODE_LEN THEN [next_code |-> acc, ovf |-> ovf]
    ELSE LET sum == code + bl_count[bits - 1]
             c == ((sum % 65536) * 2) % 65536
         IN  NextCodes(bl_count, bits + 1, c, [acc EXCEPT ![bits] = c],
                       ovf \/ sum >= 65536)

\* One pass of `for &len in lengths.iter()` counting the lengths.
CountStep(lengths, st) ==
    LET len == lengths[st.i]
    IN  [i |-> st.i + 1,
         bl_count |-> IF len > 0 /\ len <= MAX_CODE_LEN
                      THEN [st.bl_count EXCEPT ![len] = @ + 1]
                      ELSE st.bl_count]

\* One pass of `for i in 0..256` assigning the codes.
AssignStep(lengths, st) ==
    LET len == lengths[st.i]
    IN  IF len = 0 THEN [st EXCEPT !.i = st.i + 1]
        ELSE [i |-> st.i + 1,
              codes |-> [st.codes EXCEPT ![st.i] =
                            [code |-> st.next_code[len], len |-> len]],
              next_code |-> [st.next_code EXCEPT ![len] = (@ + 1) % 65536],
              ovf |-> st.ovf \/ st.next_code[len] = 65535]

\* The canonical codes of a vector of lengths, all at most MAX_CODE_LEN (the
\* three loops of from_lengths, which the cache-hit path of read_lengths
\* repeats).
CodesOf(lengths) ==
    LET bl_count == Iter(LAMBDA st : CountStep(lengths, st),
                         [i |-> 0, bl_count |-> [l \in 0 .. MAX_CODE_LEN |-> 0]],
                         256).bl_count
        nc == NextCodes(bl_count, 1, 0, [l \in 0 .. MAX_CODE_LEN |-> 0], FALSE)
    IN  Iter(LAMBDA st : AssignStep(lengths, st),
             [i |-> 0, codes |-> [s \in Symbol |-> NoCode],
              next_code |-> nc.next_code, ovf |-> nc.ovf], 256)

\* build_fast_decode_table: the table is kept as the list of the fills the
\* loop makes, in the order it makes them; an entry of the table is the last
\* fill that covers it (TableAt), the default entry where none does.
build_fast_decode_table(codes) ==
    LET filling == SymbolsWhere(LAMBDA s :
                        codes[s].len > 0 /\ codes[s].len <= FAST_DECODE_BITS)
    IN  Iter(LAMBDA st :
                 LET s == filling[st.i]
                     shift == FAST_DECODE_BITS - codes[s].len
                 IN  [i |-> st.i + 1,
                      fills |-> Append(st.fills,
                          [symbol |-> s, len |-> codes[s].len,
                           num_entries |-> 2 ^ shift,
                           start_code |-> codes[s].code * (2 ^ shift)])],
             [i |-> 1, fills |-> <<>>], Len(filling)).fills

TableAt(table, index) ==
    LET hits == {k \in DOMAIN table :
                    /\ table[k].start_code <= index
                    /\ index < table[k].start_code + table[k].num_entries
                    /\ index < TABLE_SIZE}
    IN  IF hits = {} THEN [symbol |-> 0, len |-> 0]
        ELSE LET k == CHOOSE k \in hits : \A j \in hits : j <= k
             IN  [symbol |-> table[k].symbol, len |-> table[k].len]

\* The CanonicalCode from_lengths returns once the codes are assigned.
CodeFrom(asg, checks) ==
    IF checks /\ asg.ovf
    THEN [kind |-> "panic", err |-> "attempt to add with overflow",
          codes |-> [s \in Symbol |-> NoCode], fast_decode_table |-> <<>>]
    ELSE [kind |-> "ok", err |-> "",
          codes |-> asg.codes,
          fast_decode_table |-> build_fast_decode_table(asg.codes)]

\* from_lengths: kind "ok" with the codes and the table, "err" for a length
\* above MAX_CODE_LEN, "panic" for a u16 overflow in a build that checks it.
from_lengths(lengths, checks) ==
    IF \E s \in Symbol : lengths[s] > MAX_CODE_LEN
    THEN [kind |-> "err", err |-> "Code length exceeds MAX_CODE_LEN",
          codes |-> [s \in Symbol |-> NoCode], fast_decode_table |-> <<>>]
    ELSE CodeFrom(CodesOf(lengths), checks)

\* CanonicalCode::new
CanonicalCode_new(freqs, checks) == from_lengths(NewLengths(freqs), checks)

\* write_lengths: the count as a u8 (`non_zero.len() as u8`), then the
\* (symbol, length) pairs in ascending symbol order.
write_lengths(codes) ==
    LET non_zero == SymbolsWhere(LAMBDA s : codes[s].len > 0)
    IN  Iter(LAMBDA st : [i |-> st.i + 1,
                          out |-> st.out \o <<non_zero[st.i], codes[non_zero[st.i]].len>>],
             [i |-> 1, out |-> <<Len(non_zero) % 256>>], Len(non_zero)).out

\* The CanonicalCode read_lengths returns, with the reader's position.
ReadAt(cc, pos) ==
    [kind |-> cc.kind, err |-> cc.err, pos |-> pos,
     codes |-> cc.codes, fast_decode_table |-> cc.fast_decode_table]

\* read_lengths from the start of in: the lengths vector it parses and the
\* reader's position after it (the number of bytes read), or the read error.
\* What it returns does not depend on CODE_CACHE: a hit rebuilds the same
\* codes and shares the table from_lengths built for the same key.
read_lengths(in, checks) ==
    IF Len(in) < 1 \/ Len(in) < 1 + 2 * in[1]
    THEN [kind |-> "err", err |-> "failed to fill whole buffer", pos |-> 0,
          codes |-> [s \in Symbol |-> NoCode], fast_decode_table |-> <<>>]
    ELSE ReadAt(from_lengths(
                    Iter(LAMBDA st :
                            [i |-> st.i + 1,
                             lengths |-> [st.lengths EXCEPT
                                 ![in[2 * st.i]] = in[2 * st.i + 1]]],
                         [i |-> 1, lengths |-> ZeroLengths], in[1]).lengths,
                    checks),
                1 + 2 * in[1])

(***************************************************************************)
(* huff.rs: bit-level I/O.                                                 *)
(***************************************************************************)
BitWriter_new == [buffer |-> <<>>, current_byte |-> 0, bit_pos |-> 0]

RECURSIVE BitWriter_write(_, _, _)
BitWriter_write(w, bits, len) ==
    IF len = 0 THEN w
    ELSE LET bits_to_write == Min(8 - w.bit_pos, len)
             \* (bits >> (len - bits_to_write)) & mask
             chunk == (bits \div (2 ^ (len - bits_to_write))) % (2 ^ bits_to_write)
             \* current_byte |= (chunk as u8) << (8 - bit_pos - bits_to_write)
             cur == w.current_byte
                      + (((chunk % 256) * (2 ^ (8 - w.bit_pos - bits_to_write))) % 256)
             bp == w.bit_pos + bits_to_write
         IN  BitWriter_write(
                 IF bp = 8
                 THEN [buffer |-> Append(w.buffer, cur), current_byte |-> 0, bit_pos |-> 0]
                 ELSE [buffer |-> w.buffer, current_byte |-> cur, bit_pos |-> bp],
                 bits, len - bits_to_write)

\* as_bytes without the flush of the last, partly filled byte.
BitWriter_as_bytes_no_flush(w) == w.buffer

BitWriter_as_bytes(w) ==
    IF w.bit_pos > 0 THEN Append(w.buffer, w.current_byte) ELSE w.buffer

\* BitReader::read(len) on reader r = [buffer, byte_pos, bit_pos] (byte_pos
\* counts from 0): the value and the advanced reader, or ok = FALSE (None).
RECURSIVE BitReader_read(_, _, _)
BitReader_read(r, len, val) ==
    IF len = 0 THEN [ok |-> TRUE, val |-> val, r |-> r]
    ELSE IF r.byte_pos >= Len(r.buffer) THEN [ok |-> FALSE, val |-> 0, r |-> r]
    ELSE LET bits_to_read == Min(8 - r.bit_pos, len)
             chunk == (r.buffer[r.byte_pos + 1]
                          \div (2 ^ (8 - r.bit_pos - bits_to_read))) % (2 ^ bits_to_read)
             v == ((val * (2 ^ bits_to_read)) % 65536) + chunk
             bp == r.bit_pos + bits_to_read
         IN  BitReader_read(
                 IF bp = 8
                 THEN [r EXCEPT !.byte_pos = @ + 1, !.bit_pos = 0]
                 ELSE [r EXCEPT !.bit_pos = bp],
                 len - bits_to_read, v)

\* decode_slow from pass `n` of its loop: Some(symbol) with the advanced
\* reader, or None.
RECURSIVE DecodeSlowFrom(_, _, _, _, _)
DecodeSlowFrom(r, codes, code, len, n) ==
    IF n > MAX_CODE_LEN THEN [ok |-> FALSE, symbol |-> 0, r |-> r]
    ELSE LET bit == BitReader_read(r, 1, 0)
         IN  IF ~bit.ok THEN [ok |-> FALSE, symbol |-> 0, r |-> r]
             ELSE LET c == ((code * 2) % 65536) + bit.val
                      l == len + 1
                      match == {s \in Symbol : codes[s].len = l /\ codes[s].code = c}
                  IN  IF match # {}
                      THEN [ok |-> TRUE, r |-> bit.r,
                            symbol |-> CHOOSE s \in match : \A t \in match : s <= t]
                      ELSE DecodeSlowFrom(bit.r, codes, c, l, n + 1)
decode_slow(r, codes) == DecodeSlowFrom(r, codes, 0, 0, 1)

(***************************************************************************)
(* huff.rs: encode and decode.                                             *)
(***************************************************************************)
\* `for &byte in input { freqs[byte as usize] += 1; }`
Frequencies(in) ==
    Iter(LAMBDA st : [i |-> st.i + 1, freqs |-> [st.freqs EXCEPT ![in[st.i]] = @ + 1]],
         [i |-> 1, freqs |-> ZeroLengths], Len(in)).freqs

\* huff::encode from the codes CanonicalCode::new returned.
EncodeWith(huff_tree, in) ==
    IF huff_tree.kind # "ok" THEN [kind |-> huff_tree.kind, out |-> <<>>]
    ELSE [kind |-> "ok",
          out |-> write_lengths(huff_tree.codes)
                    \o BitWriter_as_bytes(
                         Iter(LAMBDA st :
                                 [i |-> st.i + 1,
                                  w |-> IF huff_tree.codes[in[st.i]].len > 0
                                        THEN BitWriter_write(st.w,
                                                 huff_tree.codes[in[st.i]].code,
                                                 huff_tree.codes[in[st.i]].len)
                                        ELSE st.w],
                              [i |-> 1, w |-> BitWriter_new], Len(in)).w)]

huff_encode(in, checks) ==
    IF Len(in) = 0 THEN [kind |-> "ok", out |-> <<>>]
    ELSE EncodeWith(CanonicalCode_new(Frequencies(in), checks), in)

\* The closure peek16: 16 bits from bit bpos of byte bp.  Both of its paths
\* shift a big-endian 32-bit word right by 16 - bpos >= 9, so the word's
\* fourth byte never reaches the result: the three leading bytes decide it
\* (a byte past the end of the buffer counts as 0 on the tail path).
peek16(bit_buf, bp, bpos) ==
    LET remaining == IF Len(bit_buf) >= bp THEN Len(bit_buf) - bp ELSE 0
        at(i) == IF remaining >= 4 \/ i < remaining THEN bit_buf[bp + i + 1] ELSE 0
        acc24 == at(0) * 65536 + at(1) * 256 + at(2)
    IN  (acc24 \div (2 ^ (8 - bpos))) % 65536

\* `decoded < expect` for a count and a usize kept as a u64.
BelowU64(n, d) == ~FitsNat(d) \/ n < ToNat(d)

\* One pass of the `for _ in 0..2` body: the new cursor and whether the
\* pass left the for loop.
DecodeLookup(c, st) ==
    LET entry == TableAt(c.table, peek16(c.bit_buf, st.byte_pos, st.bit_pos))
    IN  IF entry.len = 0
        THEN LET slow == decode_slow([buffer |-> c.bit_buf, byte_pos |-> st.byte_pos,
                                      bit_pos |-> st.bit_pos], c.codes)
             IN  IF slow.ok
                 THEN [st |-> [st EXCEPT !.out = Append(@, slow.symbol),
                                        !.decoded = @ + 1,
                                        !.byte_pos = slow.r.byte_pos,
                                        !.bit_pos = slow.r.bit_pos],
                       brk |-> ~BelowU64(st.decoded + 1, c.expect)]
                 ELSE [st |-> st, brk |-> TRUE]
        ELSE [st |-> [st EXCEPT !.out = Append(@, entry.symbol),
                               !.decoded = @ + 1,
                               !.byte_pos = @ + ((st.bit_pos + entry.len) \div 8),
                               !.bit_pos = (st.bit_pos + entry.len) % 8],
              brk |-> ~BelowU64(st.decoded + 1, c.expect)]

\* One pass of `while decoded < expect`.  status: "run" (the loop goes on),
\* "done" (the loop was left), "hang" (the pass changed nothing and did not
\* leave the loop, so every later pass is the same).
DecodeIter(c, st) ==
    IF st.status # "run" THEN st
    ELSE IF ~BelowU64(st.decoded, c.expect) THEN [st EXCEPT !.status = "done"]
    ELSE LET bits_consumed == st.byte_pos * 8 + st.bit_pos
             total_bits == Len(c.bit_buf) * 8
         IN  IF bits_consumed >= total_bits THEN [st EXCEPT !.status = "done"]
             ELSE IF total_bits - bits_consumed < FAST_DECODE_BITS
             THEN LET slow == decode_slow([buffer |-> c.bit_buf,
                                           byte_pos |-> st.byte_pos,
                                           bit_pos |-> st.bit_pos], c.codes)
                  IN  IF slow.ok
                      THEN [st EXCEPT !.out = Append(@, slow.symbol),
                                      !.decoded = @ + 1,
                                      !.byte_pos = slow.r.byte_pos,
                                      !.bit_pos = slow.r.bit_pos]
                      ELSE [st EXCEPT !.status = "done"]
             ELSE LET first == DecodeLookup(c, st)
                      second == IF first.brk THEN first ELSE DecodeLookup(c, first.st)
                  IN  IF first.st = st THEN [st EXCEPT !.status = "hang"]
                      ELSE second.st

\* The decoding loop of huff::decode on bit_buf: its last state.  A pass
\* that goes on consumes at least one bit, which bounds the passes.
DecodeLoop(codes, table, bit_buf, expect) ==
    Iter(LAMBDA st : DecodeIter([codes |-> codes, table |-> table,
                                 bit_buf |-> bit_buf, expect |-> expect], st),
         [byte_pos |-> 0, bit_pos |-> 0, decoded |-> 0, out |-> <<>>, status |-> "run"],
         Len(bit_buf) * 8 + 1)

DecodeResult(final) ==
    IF final.status = "hang"
    THEN [kind |-> "hang", out |-> <<>>, err |-> <<>>]
    ELSE [kind |-> "ok", out |-> final.out, err |-> <<>>]

DecodeWith(huff_tree, in, expect) ==
    IF huff_tree.kind # "ok"
    THEN [kind |-> huff_tree.kind, out |-> <<>>, err |-> <<huff_tree.err>>]
    ELSE DecodeResult(DecodeLoop(huff_tree.codes, huff_tree.fast_decode_table,
                                 SubSeq(in, huff_tree.pos + 1, Len(in)), expect))

\* huff::decode(input, &mut out, Some(expect)) with out empty.  kind: "ok"
\* with the bytes pushed to out, "err", "panic", or "hang" (the loop never
\* ends).
huff_decode(in, expect, checks) ==
    IF Len(in) = 0 THEN [kind |-> "ok", out |-> <<>>, err |-> <<>>]
    ELSE DecodeWith(read_lengths(in, checks), in, expect)

(***************************************************************************)
(* block_coder.rs                                                          *)
(***************************************************************************)
BlockType_Raw == 0
BlockType_Huffman == 1

\* encode_block once huff::encode has returned, with `<=` in the place of `<`.
SelectBlock_at_most(huff_encoded, in) ==
    IF huff_encoded.kind # "ok" THEN [kind |-> huff_encoded.kind, out |-> <<>>]
    ELSE IF Len(huff_encoded.out) <= Len(in)
    THEN [kind |-> "ok",
          out |-> <<BlockType_Huffman>> \o write_varint_u64(ToU64(Len(in)))
                    \o huff_encoded.out]
    ELSE [kind |-> "ok", out |-> <<BlockType_Raw>> \o raw_encode(in)]

\* encode_block once huff::encode has returned.
SelectBlock(huff_encoded, in) ==
    IF huff_encoded.kind # "ok" THEN [kind |-> huff_encoded.kind, out |-> <<>>]
    ELSE IF Len(huff_encoded.out) < Len(in)
    THEN [kind |-> "ok",
          out |-> <<BlockType_Huffman>> \o write_varint_u64(ToU64(Len(in)))
                    \o huff_encoded.out]
    ELSE [kind |-> "ok", out |-> <<BlockType_Raw>> \o raw_encode(in)]

\* encode_block without the fallback to Raw.
encode_block_always_huffman(in, checks) ==
    IF Len(in) = 0
    THEN [kind |-> "ok", out |-> <<BlockType_Raw>> \o raw_encode(in)]
    ELSE [kind |-> huff_encode(in, checks).kind,
          out |-> <<BlockType_Huffman>> \o write_varint_u64(ToU64(Len(in)))
                    \o huff_encode(in, checks).out]

\* encode_block: kind "ok" with the block, or "panic".
encode_block(in, checks) ==
    IF Len(in) = 0
    THEN [kind |-> "ok", out |-> <<BlockType_Raw>> \o raw_encode(in)]
    ELSE SelectBlock(huff_encode(in, checks), in)

\* The Huffman arm of decode_block once the varint has been read.
DecodeHuffman(size, payload, checks) ==
    IF ~size.ok
    THEN [kind |-> "err", out |-> <<>>,
          err |-> <<"Failed to read varint for expected size">>]
    ELSE IF size.value[U64Digits] = 1
    THEN [kind |-> "panic", out |-> <<>>, err |-> <<"capacity overflow">>]
    ELSE huff_decode(SubSeq(payload, size.n + 1, Len(payload)), size.value, checks)

\* decode_block: kind "ok" with the bytes, "err" with the message (and the
\* value it formats), "panic", or "hang".  Vec::with_capacity(expected_size) panics (capacity overflow)
\* from 2^63 on; a smaller request is taken to be granted.
decode_block(in, checks) ==
    IF Len(in) = 0
    THEN [kind |-> "err", out |-> <<>>, err |-> <<"Input to decode_block cannot be empty.">>]
    ELSE IF in[1] \notin {BlockType_Raw, BlockType_Huffman}
    THEN [kind |-> "err", out |-> <<>>, err |-> <<"Unknown block type: {}", in[1]>>]
    ELSE IF in[1] = BlockType_Raw
    THEN [kind |-> "ok", out |-> raw_decode(Tail(in)), err |-> <<>>]
    ELSE DecodeHuffman(read_varint_u64(Tail(in)), Tail(in), checks)

(***************************************************************************)
(* integrity.rs                                                            *)
(***************************************************************************)
\* The longest payload the footer is exercised on.
MaxPayload == 2
PayloadBytes == {0, 1, 255}

\* blake3::hash, a function of another crate, stands here as a function
\* without collisions on the payloads shorter than HASH_SIZE: the length,
\* the bytes, and zero padding up to HASH_SIZE bytes.
H(data) ==
    <<Len(data)>> \o data \o [i \in 1 .. HASH_SIZE - 1 - Len(data) |-> 0]

\* verify_footer comparing only the first half of the digest.
verify_footer_half_compare(data) ==
    IF Len(data) < HASH_SIZE
    THEN [kind |-> "err", out |-> <<>>, err |-> "TooSmall",
          expected |-> <<>>, actual |-> <<>>]
    ELSE LET payload == SubSeq(data, 1, Len(data) - HASH_SIZE)
             footer == SubSeq(data, Len(data) - HASH_SIZE + 1, Len(data))
             expected_arr == H(payload)
         IN  IF SubSeq(expected_arr, 1, HASH_SIZE \div 2) = SubSeq(footer, 1, HASH_SIZE \div 2)
             THEN [kind |-> "ok", out |-> payload, err |-> "",
                   expected |-> <<>>, actual |-> <<>>]
             ELSE [kind |-> "err", out |-> <<>>, err |-> "Mismatch",
                   expected |-> expected_arr, actual |-> footer]

\* verify_footer returning its whole input on success.
verify_footer_keeps_digest(data) ==
    IF Len(data) < HASH_SIZE
    THEN [kind |-> "err", out |-> <<>>, err |-> "TooSmall",
          expected |-> <<>>, actual |-> <<>>]
    ELSE LET payload == SubSeq(data, 1, Len(data) - HASH_SIZE)
             footer == SubSeq(data, Len(data) - HASH_SIZE + 1, Len(data))
             expected_arr == H(payload)
         IN  IF expected_arr = footer
             THEN [kind |-> "ok", out |-> data, err |-> "",
                   expected |-> <<>>, actual |-> <<>>]
             ELSE [kind |-> "err", out |-> <<>>, err |-> "Mismatch",
                   expected |-> expected_arr, actual |-> footer]

\* verify_footer taking an input of exactly HASH_SIZE bytes for too small.
verify_footer_rejects_bare_digest(data) ==
    IF Len(data) <= HASH_SIZE
    THEN [kind |-> "err", out |-> <<>>, err |-> "TooSmall",
          expected |-> <<>>, actual |-> <<>>]
    ELSE LET payload == SubSeq(data, 1, Len(data) - HASH_SIZE)
             footer == SubSeq(data, Len(data) - HASH_SIZE + 1, Len(data))
             expected_arr == H(payload)
         IN  IF expected_arr = footer
             THEN [kind |-> "ok", out |-> payload, err |-> "",
                   expected |-> <<>>, actual |-> <<>>]
             ELSE [kind |-> "err", out |-> <<>>, err |-> "Mismatch",
                   expected |-> expected_arr, actual |-> footer]

add_footer(data) == data \o H(data)

verify_footer(data) ==
    IF Len(data) < HASH_SIZE
    THEN [kind |-> "err", out |-> <<>>, err |-> "TooSmall",
          expected |-> <<>>, actual |-> <<>>]
    ELSE LET payload == SubSeq(data, 1, Len(data) - HASH_SIZE)
             footer == SubSeq(data, Len(data) - HASH_SIZE + 1, Len(data))
             expected_arr == H(payload)
         IN  IF expected_arr = footer
             THEN [kind |-> "ok", out |-> payload, err |-> "",
                   expected |-> <<>>, actual |-> <<>>]
             ELSE [kind |-> "err", out |-> <<>>, err |-> "Mismatch",
                   expected |-> expected_arr, actual |-> footer]

SeqsUpTo(S, n) == UNION {[1 .. k -> S] : k \in 0 .. n}

\* Bit k (0 = least significant) of byte j of s inverted.
FlipBit(s, j, k) ==
    [s EXCEPT ![j] = IF (@ \div (2 ^ k)) % 2 = 1 THEN @ - 2 ^ k ELSE @ + 2 ^ k]

NoFooterResult ==
    [kind |-> "none", out |-> <<>>, err |-> "", expected |-> <<>>, actual |-> <<>>]

\* The variables of the other components, which a component's steps leave
\* alone.
FooterIdle ==
    /\ f_data = <<>> /\ f_wrapped = <<>> /\ f_result = NoFooterResult /\ f_pc = "idle"

InitFooter ==
    /\ f_data \in SeqsUpTo(PayloadBytes, MaxPayload)
    /\ f_wrapped = <<>>
    /\ f_result = NoFooterResult
    /\ f_pc = "start"

\* The writer wraps the payload.
AddFooter ==
    /\ f_pc = "start"
    /\ f_wrapped' = add_footer(f_data)
    /\ f_pc' = "wrapped"
    /\ UNCHANGED <<f_data, f_result>>
    /\ UNCHANGED not_footer

\* One bit of the stored archive is inverted before it is read back.
Corrupt ==
    /\ f_pc = "wrapped"
    /\ \E j \in 1 .. Len(f_wrapped), k \in 0 .. 7 :
           f_wrapped' = FlipBit(f_wrapped, j, k)
    /\ f_pc' = "corrupted"
    /\ UNCHANGED <<f_data, f_result>>
    /\ UNCHANGED not_footer

\* The stored archive loses its end before it is read back.
Truncate ==
    /\ f_pc = "wrapped"
    /\ \E n \in 0 .. Len(f_wrapped) - 1 : f_wrapped' = SubSeq(f_wrapped, 1, n)
    /\ f_pc' = "truncated"
    /\ UNCHANGED <<f_data, f_result>>
    /\ UNCHANGED not_footer

\* The reader verifies what it was given.
VerifyFooter ==
    /\ f_pc \in {"wrapped", "corrupted", "truncated"}
    /\ f_result' = verify_footer(f_wrapped)
    /\ f_pc' = "verified"
    /\ UNCHANGED <<f_data, f_wrapped>>
    /\ UNCHANGED not_footer

(***************************************************************************)
(* The callers' inputs.                                                    *)
(***************************************************************************)
\* The longest of the exhaustively enumerated inputs.
MaxLen == 3
SmallBytes == {97, 98, 99}

\* Sixteen distinct bytes: Huffman coding makes this block longer.
Ramp == [i \in 1 .. 16 |-> i - 1]

\* A block with highly skewed frequencies: symbol s occurs FibWeights[s + 1]
\* times.
FibWeights == <<1, 1, 1, 2, 3, 5, 8, 13, 21, 34, 55, 89, 144, 233, 377, 610, 987>>
Skewed ==
    Iter(LAMBDA st : [s |-> st.s + 1,
                      out |-> st.out \o [i \in 1 .. FibWeights[st.s + 1] |-> st.s]],
         [s |-> 0, out |-> <<>>], Len(FibWeights)).out

\* A compressible block in which all 256 byte values occur.
AllValues == [i \in 1 .. 880 |-> IF i <= 625 THEN 0 ELSE i - 625]

\* Three chunks: a full one of one byte, a full one of two, a short one.
LongRun ==
    [i \in 1 .. 2 * BLOCK_SIZE + 1 |->
        IF i <= BLOCK_SIZE THEN 97 ELSE IF i <= 2 * BLOCK_SIZE THEN 98 + (i % 2) ELSE 100]

FullBlock == [i \in 1 .. BLOCK_SIZE |-> 97 + (i % 3)]

\* Four equal bytes: the Huffman payload is exactly as long as the block.
FourRun == <<97, 97, 97, 97>>

\* Every byte value once.
Uniform == [i \in 1 .. 256 |-> i - 1]

\* 32 byte values in turn, 176 bytes: the Huffman payload is one byte
\* shorter than the block, whose length takes a varint of two bytes.
NearMiss == [i \in 1 .. 176 |-> (i - 1) % 32]

BlockInputs ==
    SeqsUpTo(SmallBytes, MaxLen)
        \cup {Ramp, Skewed, AllValues, FullBlock, FourRun, Uniform, NearMiss}
StreamInputs == SeqsUpTo(SmallBytes, MaxLen) \cup {Ramp, Skewed, AllValues, LongRun}

\* Blocks as a decoder may receive them, whoever wrote them.
MaxBlockLen == 4
BlockBytes == {0, 1, 5, 97}
ReceivedBlocks == SeqsUpTo(BlockBytes, MaxBlockLen) \cup {<<1, 5, 1, 97, 1>>, <<1, 5, 0, 255, 255>>}

\* Streams as decode_parallel may receive them, whoever wrote them.
MaxStreamLen == 4
StreamBytes == {0, 1, 2, 97}
TwoBlocks == <<2, 0, 97, 2, 0, 98>>
ThreeBlocks == <<2, 0, 97, 2, 0, 98, 2, 0, 99>>
\* A length prefix of 2^64 - 1, then a one-byte block.
WrappedLength == <<255, 255, 255, 255, 255, 255, 255, 255, 255, 1, 0>>
\* A length prefix of 2^64 - 10 in ten bytes.
LoopingLength == <<246, 255, 255, 255, 255, 255, 255, 255, 255, 1>>
ReceivedStreams ==
    SeqsUpTo(StreamBytes, MaxStreamLen)
        \cup {TwoBlocks, ThreeBlocks, WrappedLength, LoopingLength}

(***************************************************************************)
(* The block codec and its caller.                                         *)
(***************************************************************************)
NoResult == [kind |-> "none", out |-> <<>>, err |-> <<>>]

BlockIdle ==
    /\ b_input = <<>> /\ b_block = <<>> /\ b_result = NoResult /\ b_pc = "idle"

InitBlock ==
    /\ b_input \in BlockInputs
    /\ b_block = <<>>
    /\ b_result = NoResult
    /\ b_pc = "start"

InitBlockDecode ==
    /\ b_input = <<>>
    /\ b_block \in ReceivedBlocks
    /\ b_result = NoResult
    /\ b_pc = "encoded"

Encoded(e) ==
    /\ b_block' = e.out
    /\ b_pc' = IF e.kind = "ok" THEN "encoded" ELSE "panicked"

EncodeBlock ==
    /\ b_pc = "start"
    /\ Encoded(encode_block(b_input, overflow_checks))
    /\ UNCHANGED <<b_input, b_result>>
    /\ UNCHANGED not_block

\* decode_block returns, or never does ("hung").
Decoded(d) ==
    IF d.kind = "hang"
    THEN b_pc' = "hung" /\ b_result' = b_result
    ELSE b_pc' = "done" /\ b_result' = d

DecodeBlock ==
    /\ b_pc = "encoded"
    /\ Decoded(decode_block(b_block, overflow_checks))
    /\ UNCHANGED <<b_input, b_block>>
    /\ UNCHANGED not_block

(***************************************************************************)
(* encode.rs: encode_parallel.                                             *)
(***************************************************************************)
\* chunks_exact in the place of par_chunks: the short last chunk is dropped.
par_chunks_exact(in, size) ==
    [i \in 1 .. (Len(in) \div size) |-> SubSeq(in, (i - 1) * size + 1, i * size)]

\* input.par_chunks(size): contiguous chunks, the last one possibly shorter.
par_chunks(in, size) ==
    [i \in 1 .. ((Len(in) + size - 1) \div size) |->
        SubSeq(in, (i - 1) * size + 1, Min(i * size, Len(in)))]

Pending == [kind |-> "pending", out |-> <<>>, err |-> <<>>]

\* `for result in results { ... }`: each block behind the varint of its
\* length, in the order of the vector.
RECURSIVE WriteRecords(_, _, _)
WriteRecords(results, i, final) ==
    IF i > Len(results) THEN final
    ELSE WriteRecords(results, i + 1,
             final \o write_varint_u64(ToU64(Len(results[i].out))) \o results[i].out)

StreamIdle ==
    /\ input = <<>> /\ pc = "idle" /\ enc_results = <<>> /\ final_data = <<>>
    /\ boundaries = <<>> /\ dec_state = <<>> /\ dec_order = <<>> /\ enc_order = <<>>
    /\ saved_error = <<>> /\ result = NoResult

InitStream ==
    /\ input \in StreamInputs
    /\ pc = "start"
    /\ enc_results = <<>> /\ final_data = <<>>
    /\ boundaries = <<>> /\ dec_state = <<>> /\ dec_order = <<>> /\ enc_order = <<>>
    /\ saved_error = <<>> /\ result = NoResult

\* encode_parallel up to the parallel map: the empty input returns at once.
EncStart ==
    /\ pc = "start"
    /\ IF Len(input) = 0
       THEN pc' = "encoded" /\ enc_results' = enc_results
       ELSE /\ pc' = "encoding"
            /\ enc_results' = [i \in DOMAIN par_chunks(input, BLOCK_SIZE) |-> Pending]
    /\ UNCHANGED <<input, final_data, boundaries, dec_state, dec_order, enc_order,
                   saved_error, result>>
    /\ UNCHANGED not_stream

Slot(e) == [kind |-> e.kind, out |-> e.out, err |-> <<>>]

\* A worker runs the closure of the map on chunk i; results[i] is its slot.
EncTask(i) ==
    /\ pc = "encoding"
    /\ enc_results[i].kind = "pending"
    /\ enc_results' = [enc_results EXCEPT ![i] =
           Slot(encode_block(par_chunks(input, BLOCK_SIZE)[i], overflow_checks))]
    /\ enc_order' = Append(enc_order, i)
    /\ UNCHANGED <<input, pc, final_data, boundaries, dec_state, dec_order,
                   saved_error, result>>
    /\ UNCHANGED not_stream

\* The collect is complete: the sequential loop writes the records.  A
\* panic of a worker is resumed in the caller.
EncCollect ==
    /\ pc = "encoding"
    /\ \A i \in DOMAIN enc_results : enc_results[i].kind # "pending"
    /\ IF \E i \in DOMAIN enc_results : enc_results[i].kind = "panic"
       THEN pc' = "panicked" /\ final_data' = final_data
       ELSE pc' = "encoded" /\ final_data' = WriteRecords(enc_results, 1, <<>>)
    /\ UNCHANGED <<input, enc_results, boundaries, dec_state, dec_order, enc_order,
                   saved_error, result>>
    /\ UNCHANGED not_stream

(***************************************************************************)
(* encode.rs: decode_parallel.  usize is 64 bits wide.                     *)
(***************************************************************************)
\* The scan loop from position pos.  kind: "ok" with the boundaries (pairs
\* <<start, end>>), "err", "panic" (the addition overflowed in a build that
\* checks it), or "hang": a wrapped `end` brought pos back to a position the
\* loop has been at, so it pushes the same boundaries again without end.
RECURSIVE ScanFrom(_, _, _, _, _)
ScanFrom(data, pos, bounds, visited, checks) ==
    IF ~(pos < Len(data)) THEN [kind |-> "ok", boundaries |-> bounds, err |-> <<>>]
    ELSE IF pos \in visited THEN [kind |-> "hang", boundaries |-> bounds, err |-> <<>>]
    ELSE LET rv == read_varint_u64(SubSeq(data, pos + 1, Len(data)))
             start == pos + rv.n
             sum == AddU64(ToU64(start), rv.value)      \* start + block_len as usize
         IN  IF ~rv.ok
             THEN [kind |-> "err", boundaries |-> bounds,
                   err |-> <<"Failed to read block length varint">>]
             ELSE IF sum.overflow /\ checks
             THEN [kind |-> "panic", boundaries |-> bounds,
                   err |-> <<"attempt to add with overflow">>]
             ELSE IF GtU64(sum.digits, ToU64(Len(data)))
             THEN [kind |-> "err", boundaries |-> bounds,
                   err |-> <<"Incomplete block data">>]
             ELSE ScanFrom(data, ToNat(sum.digits),
                           Append(bounds, <<start, ToNat(sum.digits)>>),
                           visited \cup {pos}, checks)

\* The sort left out: the parts stay in the order they were collected.
sort_by_key_skipped(parts) == parts

\* decoded_parts.sort_by_key(|&(idx, _)| idx): a stable sort on the index.
sort_by_key(parts) ==
    LET rank(j) == Cardinality({i \in DOMAIN parts : parts[i][1] < parts[j][1]})
                     + Cardinality({i \in 1 .. j - 1 : parts[i][1] = parts[j][1]}) + 1
    IN  [k \in DOMAIN parts |-> parts[CHOOSE j \in DOMAIN parts : rank(j) = k]]

\* `for (_, mut part) in decoded_parts { out.extend(part.drain(..)); }`
RECURSIVE Concat(_, _, _)
Concat(parts, k, out) ==
    IF k > Len(parts) THEN out ELSE Concat(parts, k + 1, out \o parts[k][2])

InitDecode ==
    /\ input = <<>>
    /\ pc = "encoded"
    /\ final_data \in ReceivedStreams
    /\ enc_results = <<>> /\ enc_order = <<>>
    /\ boundaries = <<>> /\ dec_state = <<>> /\ dec_order = <<>>
    /\ saved_error = <<>> /\ result = NoResult

\* decode_parallel up to the parallel map: the empty input returns at once,
\* a failed scan returns its error.
DecScan ==
    /\ pc = "encoded"
    /\ IF Len(final_data) = 0
       THEN /\ pc' = "done" /\ result' = [kind |-> "ok", out |-> <<>>, err |-> <<>>]
            /\ UNCHANGED <<boundaries, dec_state>>
       ELSE LET scan == ScanFrom(final_data, 0, <<>>, {}, overflow_checks)
            IN  IF scan.kind = "ok"
                THEN /\ pc' = "decoding" /\ result' = result
                     /\ boundaries' = scan.boundaries
                     /\ dec_state' = [i \in DOMAIN scan.boundaries |-> Pending]
                ELSE /\ pc' = IF scan.kind = "hang" THEN "hung" ELSE "done"
                     /\ result' = IF scan.kind = "hang" THEN result
                                  ELSE [kind |-> scan.kind, out |-> <<>>, err |-> scan.err]
                     /\ UNCHANGED <<boundaries, dec_state>>
    /\ UNCHANGED <<input, enc_results, final_data, dec_order, enc_order, saved_error>>
    /\ UNCHANGED not_stream

\* &encoded_data[s..e], then decode_block on the slice.
DecodeSlice(data, s, e, checks) ==
    IF s > e
    THEN [kind |-> "panic", out |-> <<>>,
          err |-> <<"slice index starts at {} but ends at {}", s, e>>]
    ELSE decode_block(SubSeq(data, s + 1, e), checks)

TaskDone(i, d) ==
    /\ dec_state' = [dec_state EXCEPT ![i] = d]
    /\ dec_order' = IF d.kind = "hang" THEN dec_order ELSE Append(dec_order, i)
    /\ saved_error' = IF d.kind = "err" /\ saved_error = <<>> THEN d.err ELSE saved_error

\* A worker runs the closure of the map on block i (1-based here): the
\* slice, decode_block, and, on an error, the collect's saved_error, which
\* keeps the first error stored.  A task that hangs never completes.
DecTask(i) ==
    /\ pc = "decoding"
    /\ dec_state[i].kind = "pending"
    /\ TaskDone(i, DecodeSlice(final_data, boundaries[i][1], boundaries[i][2],
                               overflow_checks))
    /\ UNCHANGED <<input, pc, enc_results, final_data, boundaries, enc_order, result>>
    /\ UNCHANGED not_stream

\* The collect is over: every task has completed, or an error or a panic
\* stopped the iterator and the tasks not begun are skipped.  A panic of a
\* worker is resumed in the caller; a saved error is returned; otherwise
\* the parts, in the order collected, are sorted and concatenated.
DecCollect ==
    /\ pc = "decoding"
    /\ \A i \in DOMAIN dec_state : dec_state[i].kind # "hang"
    /\ \/ \A i \in DOMAIN dec_state : dec_state[i].kind # "pending"
       \/ saved_error # <<>>
       \/ \E i \in DOMAIN dec_state : dec_state[i].kind = "panic"
    /\ result' =
          IF \E i \in DOMAIN dec_state : dec_state[i].kind = "panic"
          THEN [kind |-> "panic", out |-> <<>>, err |-> <<>>]
          ELSE IF saved_error # <<>>
          THEN [kind |-> "err", out |-> <<>>, err |-> saved_error]
          ELSE LET decoded_parts ==
                       [k \in DOMAIN dec_order |->
                           <<dec_order[k] - 1, dec_state[dec_order[k]].out>>]
               IN  [kind |-> "ok", out |-> Concat(sort_by_key(decoded_parts), 1, <<>>),
                    err |-> <<>>]
    /\ pc' = "done"
    /\ UNCHANGED <<input, enc_results, final_data, boundaries, dec_state, dec_order,
                   enc_order, saved_error>>
    /\ UNCHANGED not_stream

(***************************************************************************)
(* huff.rs: CODE_CACHE and the calls of read_lengths that share it.        *)
(***************************************************************************)
CACHE_LIMIT == 32

\* The decoder threads that call read_lengths concurrently.
NumThreads == 2
Threads == 1 .. NumThreads

\* A serialized codebook with the one symbol k, of length 1; one with a
\* length above MAX_CODE_LEN; one that ends before its second pair.
Book(k) == <<1, k, 1>>
BadBook == <<1, 0, MAX_CODE_LEN + 1>>
ShortBook == <<2, 0, 1>>
\* Two pairs for the symbol 0: a length above MAX_CODE_LEN, then length 1.
DupBook == <<2, 0, MAX_CODE_LEN + 1, 0, 1>>

\* The codebooks one thread has already read, one call after the other,
\* when the concurrent calls begin: one fewer than fill the cache.
WarmBooks == CACHE_LIMIT - 1

\* The blocks that remain, which the threads take in turn.  In one archive
\* they hold a codebook that is cached, a malformed one, a new one, which
\* fills the cache, and one more new one; in the other a truncated codebook,
\* the same new codebook twice and one with a pair that is overwritten.
Archives ==
    {<<Book(0), BadBook, Book(WarmBooks), Book(WarmBooks + 1)>>,
     <<ShortBook, Book(WarmBooks), Book(WarmBooks), DupBook>>}

\* `lengths.to_vec()`, the cache key.  The map compares keys by content, and
\* a key is kept here as the (symbol, length) pairs of the nonzero lengths in
\* ascending symbol order, which determine the 256 bytes; VectorOf gives the
\* bytes back.
KeyOf(lengths) ==
    Iter(LAMBDA st : [i |-> st.i + 1,
                      out |-> IF lengths[st.i] > 0
                              THEN Append(st.out, <<st.i, lengths[st.i]>>)
                              ELSE st.out],
         [i |-> 0, out |-> <<>>], 256).out

VectorOf(key) ==
    [s \in Symbol |->
        IF \E i \in DOMAIN key : key[i][1] = s
        THEN key[CHOOSE i \in DOMAIN key : key[i][1] = s][2] ELSE 0]

\* The head of read_lengths: the lengths vector it parses, or the read error
\* of a reader that runs out of bytes.
LengthsOf(in) ==
    IF Len(in) < 1 \/ Len(in) < 1 + 2 * in[1]
    THEN [ok |-> FALSE, lengths |-> ZeroLengths]
    ELSE [ok |-> TRUE,
          lengths |-> Iter(LAMBDA st :
                              [i |-> st.i + 1,
                               lengths |-> [st.lengths EXCEPT
                                   ![in[2 * st.i]] = in[2 * st.i + 1]]],
                           [i |-> 1, lengths |-> ZeroLengths], in[1]).lengths]

\* The codebooks the archives hold.  The head of read_lengths and
\* from_lengths are pure functions of their argument, and they are computed
\* once for each codebook and for each key: ParsedBooks[book] is what the
\* head of read_lengths makes of the codebook, with the key of the lengths
\* it parsed, and BuiltCodes[key][checks] is from_lengths(&lengths) of the
\* vector of that key in a build with or without overflow checks.
ArchiveBooks == UNION {{a[i] : i \in DOMAIN a} : a \in Archives}

ParsedBooks ==
    [book \in ArchiveBooks |->
        LET p == LengthsOf(book)
        IN  [ok |-> p.ok, key |-> KeyOf(p.lengths)]]

ArchiveKeys == {ParsedBooks[book].key : book \in {b \in ArchiveBooks : ParsedBooks[b].ok}}

BuiltCodes ==
    [key \in ArchiveKeys |->
        [checks \in BOOLEAN |-> from_lengths(VectorOf(key), checks)]]

\* The heap of Arc allocations: a slot holds the strong count and the table;
\* a slot whose count is 0 has been deallocated and may be handed out again.
Freed == [strong |-> 0, data |-> <<>>]

\* Arc::new
ArcNew(heap, data) ==
    LET free == {i \in DOMAIN heap : heap[i].strong = 0}
    IN  IF free = {}
        THEN [heap |-> Append(heap, [strong |-> 1, data |-> data]),
              id |-> Len(heap) + 1]
        ELSE LET i == CHOOSE i \in free : \A j \in free : i <= j
             IN  [heap |-> [heap EXCEPT ![i] = [strong |-> 1, data |-> data]],
                  id |-> i]

\* Arc::clone
ArcClone(heap, id) == [heap EXCEPT ![id].strong = @ + 1]

\* A drop that deallocates although other owners remain.
ArcDrop_frees(heap, id) == [heap EXCEPT ![id] = Freed]

\* Drop of an Arc: the table is deallocated when the last owner goes.
ArcDrop(heap, id) ==
    IF heap[id].strong = 1 THEN [heap EXCEPT ![id] = Freed]
    ELSE [heap EXCEPT ![id].strong = @ - 1]

\* An eviction only once the limit is exceeded.
EvictionCandidates_above(cache) ==
    IF Cardinality(DOMAIN cache) > CACHE_LIMIT THEN DOMAIN cache ELSE {}

\* `if cache.len() >= CACHE_LIMIT`: the keys `cache.keys().next()` may yield,
\* which is any key of the map (its iteration order is unspecified).
EvictionCandidates(cache) ==
    IF Cardinality(DOMAIN cache) >= CACHE_LIMIT THEN DOMAIN cache ELSE {}

\* No key: a pair that no lengths vector has.
NoKey == <<<<-1, 0>>>>

\* An insertion that, after an eviction, files the evicted table under the
\* new key.
CacheInsert_victim_table(cache, heap, victim, key, id) ==
    IF victim = NoKey
    THEN [cache |-> [k \in DOMAIN cache \cup {key} |-> IF k = key THEN id ELSE cache[k]],
          arcs |-> ArcClone(heap, id)]
    ELSE [cache |-> [k \in (DOMAIN cache \ {victim}) \cup {key} |->
                        IF k = key THEN cache[victim] ELSE cache[k]],
          arcs |-> heap]

\* The block under the write lock: the removal of the victim, if there is
\* one, and `cache.insert(key, cc.fast_decode_table.clone())`, which drops
\* the value the key had.
CacheInsert(cache, heap, victim, key, id) ==
    LET kept == IF victim = NoKey THEN cache
                ELSE [k \in DOMAIN cache \ {victim} |-> cache[k]]
        h1 == IF victim = NoKey THEN heap ELSE ArcDrop(heap, cache[victim])
        h2 == ArcClone(h1, id)
    IN  [cache |-> [k \in DOMAIN kept \cup {key} |->
                        IF k = key THEN id ELSE kept[k]],
         arcs |-> IF key \in DOMAIN kept THEN ArcDrop(h2, kept[key]) ELSE h2]

IdleThread == [pc |-> "idle", book |-> <<>>, key |-> NoKey, table |-> 0]

\* RwLock::new: nobody holds the lock.  writer is the thread that holds the
\* write lock, 0 when none does.
Unlocked == [readers |-> {}, writer |-> 0]

\* The read guard is not dropped.
ReleaseRead_never(lock, t) == lock

\* The drop of the read guard of thread t; of its write guard.
ReleaseRead(lock, t) == [lock EXCEPT !.readers = @ \ {t}]
ReleaseWrite(lock, t) == [lock EXCEPT !.writer = 0]

CacheIdle ==
    /\ CODE_CACHE = <<>> /\ arcs = <<>> /\ archive = <<>> /\ next_block = 0
    /\ thr = [t \in Threads |-> IdleThread]
    /\ rwlock = Unlocked

\* One such call: a miss, the insertion without an eviction, and the drop of
\* the code when its block is decoded.
WarmStep(st, checks) ==
    LET lengths == LengthsOf(Book(st.i)).lengths
        a == ArcNew(st.arcs, from_lengths(lengths, checks).fast_decode_table)
        r == CacheInsert(st.cache, a.heap, NoKey, KeyOf(lengths), a.id)
    IN  [i |-> st.i + 1, cache |-> r.cache, arcs |-> ArcDrop(r.arcs, a.id)]

\* The cache starts as Lazy::new(|| RwLock::new(HashMap::new())) makes it
\* and the first WarmBooks codebooks are read; no thread is inside
\* read_lengths.
InitCache ==
    LET warm == Iter(LAMBDA st : WarmStep(st, overflow_checks),
                     [i |-> 0, cache |-> <<>>, arcs |-> <<>>], WarmBooks)
    IN  /\ CODE_CACHE = warm.cache
        /\ arcs = warm.arcs
        /\ archive \in Archives
        /\ next_block = 0
        /\ thr = [t \in Threads |-> IdleThread]
        /\ rwlock = Unlocked

\* Thread t takes the next block and calls read_lengths: it parses the
\* lengths, which fails when the reader runs out of bytes, and takes the read
\* lock of the cache, for which it waits while a writer holds the lock.
Lookup(t) ==
    /\ thr[t].pc = "idle"
    /\ next_block < Len(archive)
    /\ next_block' = next_block + 1
    /\ LET book == archive[next_block + 1]
           p == ParsedBooks[book]
       IN  IF ~p.ok
           THEN /\ thr' = [thr EXCEPT ![t].pc = "failed", ![t].book = book]
                /\ rwlock' = rwlock
           ELSE /\ rwlock.writer = 0
                /\ rwlock' = [rwlock EXCEPT !.readers = @ \cup {t}]
                /\ thr' = [thr EXCEPT ![t] =
                              [pc |-> "reading", book |-> book,
                               key |-> p.key, table |-> 0]]
    /\ UNCHANGED <<CODE_CACHE, arcs, archive>>
    /\ UNCHANGED not_cache

\* `cache.get(&key)` under the read lock and what follows it up to the
\* write lock.  On a hit the thread returns with a clone of the cached Arc;
\* on a miss the `if let` ends, which drops the read guard, and from_lengths
\* builds the code and allocates its table, or fails.
Looked(t, key) ==
    IF key \in DOMAIN CODE_CACHE
    THEN /\ arcs' = ArcClone(arcs, CODE_CACHE[key])
         /\ thr' = [thr EXCEPT ![t].pc = "decoding", ![t].table = CODE_CACHE[key]]
    ELSE LET cc == BuiltCodes[key][overflow_checks]
         IN  IF cc.kind # "ok"
             THEN /\ thr' = [thr EXCEPT ![t].pc = "failed"]
                  /\ arcs' = arcs
             ELSE LET a == ArcNew(arcs, cc.fast_decode_table)
                  IN  /\ arcs' = a.heap
                      /\ thr' = [thr EXCEPT ![t].pc = "missed", ![t].table = a.id]

Get(t) ==
    /\ thr[t].pc = "reading"
    /\ Looked(t, thr[t].key)
    /\ rwlock' = ReleaseRead(rwlock, t)
    /\ UNCHANGED <<CODE_CACHE, archive, next_block>>
    /\ UNCHANGED not_cache

\* Thread t, after a miss, takes the write lock: `CODE_CACHE.write()` waits
\* until no thread holds the lock, for reading or for writing.
WriteLock(t) ==
    /\ thr[t].pc = "missed"
    /\ rwlock.writer = 0 /\ rwlock.readers = {}
    /\ rwlock' = [rwlock EXCEPT !.writer = t]
    /\ thr' = [thr EXCEPT ![t].pc = "writing"]
    /\ UNCHANGED <<CODE_CACHE, arcs, archive, next_block>>
    /\ UNCHANGED not_cache

\* Thread t, under the write lock, evicts if the cache is full, inserts its
\* table, drops the write guard and returns the code.
Insert(t) ==
    /\ thr[t].pc = "writing"
    /\ \E victim \in (IF EvictionCandidates(CODE_CACHE) = {} THEN {NoKey}
                      ELSE EvictionCandidates(CODE_CACHE)) :
          LET r == CacheInsert(CODE_CACHE, arcs, victim, thr[t].key, thr[t].table)
          IN  /\ CODE_CACHE' = r.cache
              /\ arcs' = r.arcs
    /\ thr' = [thr EXCEPT ![t].pc = "decoding"]
    /\ rwlock' = ReleaseWrite(rwlock, t)
    /\ UNCHANGED <<archive, next_block>>
    /\ UNCHANGED not_cache

\* Thread t is done with what read_lengths returned: the decoder drops its
\* CanonicalCode, or the caller has seen the error.
Finish(t) ==
    /\ thr[t].pc \in {"decoding", "failed"}
    /\ arcs' = IF thr[t].pc = "decoding" THEN ArcDrop(arcs, thr[t].table) ELSE arcs
    /\ thr' = [thr EXCEPT ![t] = IdleThread]
    /\ UNCHANGED <<CODE_CACHE, rwlock, archive, next_block>>
    /\ UNCHANGED not_cache

(***************************************************************************)
(* bstseal-cli main.rs and bstseal-ffi lib.rs: the callers that verify the  *)
(* footer and decode.                                                      *)
(***************************************************************************)
\* The most entries of an archive given to Unpack.
MaxEntries == 2

\* Stored inputs: streams with their footer (an empty stream, one block,
\* two blocks, a block of an unknown type), one with a bit of the stream
\* inverted, and one without a footer.
StoredInputs ==
    {add_footer(<<>>), add_footer(<<2, 0, 97>>), add_footer(TwoBlocks),
     add_footer(<<2, 7, 97>>), FlipBit(add_footer(<<2, 0, 97>>), 3, 0),
     <<2, 0, 97>>}

Commands == {"Decode", "Unpack", "Cat", "bstseal_decode"}

\* A caller that hands its whole input to decode_parallel.
CheckedPayload_unverified(data) ==
    [kind |-> "ok", out |-> data, err |-> "", expected |-> <<>>, actual |-> <<>>]

\* `verify_footer(&input_data)` as the callers invoke it.
CheckedPayload(data) == verify_footer(data)

IdleCaller ==
    [cmd |-> "", inputs |-> <<>>, null |-> FALSE, idx |-> 0, pc |-> "idle",
     verified |-> NoFooterResult, calls |-> <<>>, out |-> <<>>, code |-> ""]

CallerIdle == caller = IdleCaller

\* A command line or a call of bstseal_decode.  Decode and bstseal_decode
\* have one input; Cat has the entry it found, or none; Unpack has the
\* entries of the archive's index.  bstseal_decode may be given a null
\* pointer.
InitCaller ==
    \E cmd \in Commands, inputs \in SeqsUpTo(StoredInputs, MaxEntries),
       null \in BOOLEAN :
        /\ cmd \in {"Decode", "bstseal_decode"} => Len(inputs) = 1
        /\ cmd = "Cat" => Len(inputs) <= 1
        /\ null => cmd = "bstseal_decode"
        /\ caller = [IdleCaller EXCEPT !.cmd = cmd, !.inputs = inputs,
                                       !.null = null, !.pc = "start"]

\* What the command reports when verify_footer fails, when decode_parallel
\* fails, and when it cannot allocate.
IntegrityFailure(cmd) ==
    IF cmd = "Decode" THEN "exit(1)"
    ELSE IF cmd = "bstseal_decode" THEN "IntegrityFail" ELSE "Err"

DecodeFailure(cmd) == IF cmd = "bstseal_decode" THEN "DecodeFail" ELSE "Err"

\* The command up to its first verify_footer: the null check of
\* bstseal_decode, `find` of Cat, the `for` of Unpack.
CallerStart ==
    /\ caller.pc = "start"
    /\ caller' =
          IF caller.null
          THEN [caller EXCEPT !.pc = "failed", !.code = "NullPointer"]
          ELSE IF caller.inputs = <<>>
          THEN IF caller.cmd = "Cat"
               THEN [caller EXCEPT !.pc = "failed", !.code = "Err"]
               ELSE [caller EXCEPT !.pc = "done", !.code = "Ok"]
          ELSE [caller EXCEPT !.pc = "verify", !.idx = 1]
    /\ UNCHANGED stream_vars
    /\ UNCHANGED not_caller

\* verify_footer on the current input and, when it succeeds, the call of
\* decode_parallel on the payload; when it fails the command ends.
CallerVerify ==
    /\ caller.pc = "verify"
    /\ LET v == CheckedPayload(caller.inputs[caller.idx])
       IN  IF v.kind = "ok"
           THEN /\ caller' = [caller EXCEPT !.pc = "decoding", !.verified = v,
                                           !.calls = Append(@, v.out)]
                /\ pc' = "encoded"
                /\ final_data' = v.out
                /\ input' = <<>> /\ enc_results' = <<>> /\ enc_order' = <<>>
                /\ boundaries' = <<>> /\ dec_state' = <<>> /\ dec_order' = <<>>
                /\ saved_error' = <<>> /\ result' = NoResult
           ELSE /\ caller' = [caller EXCEPT !.pc = "failed", !.verified = v,
                                           !.code = IntegrityFailure(caller.cmd)]
                /\ UNCHANGED stream_vars
    /\ UNCHANGED not_caller

\* The output of a decoded input: Decode and Unpack write the output file,
\* Cat writes to stdout, bstseal_decode sets out_ptr and out_len unless
\* malloc returned null.  Unpack goes on to the next entry.
Delivered(c, data, buf_null) ==
    IF c.cmd = "bstseal_decode" /\ buf_null
    THEN [c EXCEPT !.pc = "failed", !.code = "AllocFail"]
    ELSE IF c.cmd = "Unpack" /\ c.idx < Len(c.inputs)
    THEN [c EXCEPT !.pc = "verify", !.idx = @ + 1,
                   !.out = Append(@, [entry |-> c.idx, data |-> data])]
    ELSE [c EXCEPT !.pc = "done", !.code = "Ok",
                   !.out = Append(@, [entry |-> c.idx, data |-> data])]

\* decode_parallel has returned to the command.
CallerCollect ==
    /\ caller.pc = "decoding"
    /\ pc = "done"
    /\ \E buf_null \in BOOLEAN :
          caller' =
              IF result.kind = "ok" THEN Delivered(caller, result.out, buf_null)
              ELSE IF result.kind = "panic"
              THEN [caller EXCEPT !.pc = "failed", !.code = "panic"]
              ELSE [caller EXCEPT !.pc = "failed", !.code = DecodeFailure(caller.cmd)]
    /\ UNCHANGED stream_vars
    /\ UNCHANGED not_caller

(***************************************************************************)
(* license.rs: the runtime secret and verify_license.                      *)
(***************************************************************************)
\* The most calls of set_license_secret and of verify_license in a run.
MaxSets == 3
MaxUses == 2

Secrets == {"abc", "xyz"}

\* HMAC-SHA256 with base64url, functions of other crates, stand here as the
\* pair of the key and the signed data, which has no collisions.
Hmac(secret, data) == [key |-> secret, data |-> data]

\* A license string as `split('.')` sees it: the number of parts, the uuid,
\* the tier, the expiry (the parts between the tier and the signature, joined
\* again), and the signature.  The expiry is a time, or BadTime for a text
\* that parse_from_rfc3339 rejects.
BadTime == -1
MakeLicense(tier, expires, secret) ==
    [nparts |-> 4, uuid |-> "id", tier |-> tier, expires |-> expires,
     sig |-> Hmac(secret, <<"id", tier, expires>>)]

\* chrono::Utc::now()
Now == 1

\* Licenses signed with each secret, an expired one, one with three parts
\* and one whose expiry does not parse.
Licenses ==
    {MakeLicense("solo", 2, secret) : secret \in Secrets \cup {"env"}}
    \cup {MakeLicense("team", 0, "abc"),
          [MakeLicense("solo", 2, "abc") EXCEPT !.nparts = 3],
          MakeLicense("solo", BadTime, "abc")}

\* Tier::from_str
Tier_from_str(str) ==
    IF str = "solo" THEN "Solo" ELSE IF str = "startup" THEN "Startup" ELSE "Unknown"

\* OnceCell::set that replaces the value of a full cell.
OnceCell_set_overwrites(cell, value) == [cell |-> <<value>>, ok |-> TRUE]

\* OnceCell::set: Ok(()) and the value stored if the cell was empty,
\* Err(value) and the cell unchanged if it was full.
OnceCell_set(cell, value) ==
    IF cell = <<>> THEN [cell |-> <<value>>, ok |-> TRUE]
    ELSE [cell |-> cell, ok |-> FALSE]

\* get_secret: the runtime secret, else the environment variable, else the
\* compile-time variable, else MissingSecret.
get_secret(cell, env) ==
    IF cell # <<>> THEN [ok |-> TRUE, secret |-> cell[1]]
    ELSE IF env.var # <<>> THEN [ok |-> TRUE, secret |-> env.var[1]]
    ELSE IF env.compiled # <<>> THEN [ok |-> TRUE, secret |-> env.compiled[1]]
    ELSE [ok |-> FALSE, secret |-> ""]

\* verify_license, given what get_secret returns and the time.
verify_license(license, got, now) ==
    IF license.nparts < 4 THEN [kind |-> "err", err |-> "Format", tier |-> ""]
    ELSE IF ~got.ok THEN [kind |-> "err", err |-> "MissingSecret", tier |-> ""]
    ELSE IF Hmac(got.secret, <<license.uuid, license.tier, license.expires>>)
                # license.sig
    THEN [kind |-> "err", err |-> "Signature", tier |-> ""]
    ELSE IF license.expires = BadTime
    THEN [kind |-> "err", err |-> "Format", tier |-> ""]
    ELSE IF now > license.expires
    THEN [kind |-> "err", err |-> "Expired", tier |-> ""]
    ELSE [kind |-> "ok", err |-> "", tier |-> Tier_from_str(license.tier)]

IdleSetter == [pc |-> "idle", arg |-> ""]

LicenseIdle ==
    /\ RUNTIME_SECRET = <<>>
    /\ lic_env = [var |-> <<>>, compiled |-> <<>>]
    /\ lic_thr = [t \in Threads |-> IdleSetter]
    /\ lic_sets = <<>> /\ lic_uses = <<>>

\* OnceCell::new(); the process may have LICENSE_SECRET in its environment
\* and may have been compiled with it.
InitLicense ==
    /\ RUNTIME_SECRET = <<>>
    /\ lic_env \in [var : {<<>>, <<"env">>}, compiled : {<<>>, <<"built">>}]
    /\ lic_thr = [t \in Threads |-> IdleSetter]
    /\ lic_sets = <<>> /\ lic_uses = <<>>

\* Thread t calls set_license_secret(secret): `secret.into()`.
SetCall(t) ==
    /\ lic_thr[t].pc = "idle"
    /\ Len(lic_sets) + Cardinality({u \in Threads : lic_thr[u].pc = "setting"}) < MaxSets
    /\ \E secret \in Secrets :
          lic_thr' = [lic_thr EXCEPT ![t] = [pc |-> "setting", arg |-> secret]]
    /\ UNCHANGED <<RUNTIME_SECRET, lic_env, lic_sets, lic_uses>>
    /\ UNCHANGED not_license

\* Thread t's call reaches the cell: `RUNTIME_SECRET.set(..).is_ok()`, and
\* the call returns that.
SetCell(t) ==
    /\ lic_thr[t].pc = "setting"
    /\ LET r == OnceCell_set(RUNTIME_SECRET, lic_thr[t].arg)
       IN  /\ RUNTIME_SECRET' = r.cell
           /\ lic_sets' = Append(lic_sets, [arg |-> lic_thr[t].arg, ret |-> r.ok])
    /\ lic_thr' = [lic_thr EXCEPT ![t] = IdleSetter]
    /\ UNCHANGED <<lic_env, lic_uses>>
    /\ UNCHANGED not_license

\* Some thread calls verify_license on a license string.
VerifyLicense ==
    /\ Len(lic_uses) < MaxUses
    /\ \E license \in Licenses :
          LET got == get_secret(RUNTIME_SECRET, lic_env)
          IN  lic_uses' = Append(lic_uses,
                  [after |-> Len(lic_sets), got |-> got,
                   result |-> verify_license(license, got, Now)])
    /\ UNCHANGED <<RUNTIME_SECRET, lic_env, lic_thr, lic_sets>>
    /\ UNCHANGED not_license

(***************************************************************************)
(* huff.rs: a code book built, written and read back.                      *)
(***************************************************************************)
\* A block in which every byte value but 0 occurs.
AllButZero == [i \in 1 .. 255 |-> i]

\* huff::encode returns before it builds a code when the block is empty.
CodebookInputs == (BlockInputs \ {<<>>}) \cup {AllButZero}

NoCodebook ==
    [kind |-> "none", err |-> "", pos |-> 0,
     codes |-> [s \in Symbol |-> NoCode], fast_decode_table |-> <<>>]

CodebookIdle ==
    /\ cb_input = <<>> /\ cb_code = NoCodebook /\ cb_bytes = <<>>
    /\ cb_read = NoCodebook /\ cb_pc = "idle"

InitCodebook ==
    /\ cb_input \in CodebookInputs
    /\ cb_code = NoCodebook /\ cb_bytes = <<>> /\ cb_read = NoCodebook
    /\ cb_pc = "start"

\* huff::encode up to the code: the frequencies of the block, then
\* CanonicalCode::new.
NewCode ==
    /\ cb_pc = "start"
    /\ cb_code' = ReadAt(CanonicalCode_new(Frequencies(cb_input), overflow_checks), 0)
    /\ cb_pc' = "built"
    /\ UNCHANGED <<cb_input, cb_bytes, cb_read>>
    /\ UNCHANGED not_codebook

\* write_lengths of the code that was built.
WriteLengths ==
    /\ cb_pc = "built"
    /\ cb_code.kind = "ok"
    /\ cb_bytes' = write_lengths(cb_code.codes)
    /\ cb_pc' = "written"
    /\ UNCHANGED <<cb_input, cb_code, cb_read>>
    /\ UNCHANGED not_codebook

\* read_lengths on the bytes that were written.
ReadLengths ==
    /\ cb_pc = "written"
    /\ cb_read' = read_lengths(cb_bytes, overflow_checks)
    /\ cb_pc' = "read"
    /\ UNCHANGED <<cb_input, cb_code, cb_bytes>>
    /\ UNCHANGED not_codebook

(***************************************************************************)
(* huff.rs: encode, then decode one pass of its loop at a time.            *)
(***************************************************************************)
IdleCursor ==
    [byte_pos |-> 0, bit_pos |-> 0, decoded |-> 0, out |-> <<>>, status |-> "idle"]

HuffIdle ==
    /\ h_input = <<>> /\ h_payload = <<>> /\ h_expect = 0 /\ h_tree = NoCodebook
    /\ h_st = IdleCursor /\ h_lookups = <<>> /\ h_pc = "idle"

\* n copies of the byte s.
Run(s, n) == [i \in 1 .. n |-> s]
RunLengths == {1, 2, 5, 7, 8, 9, 15, 16, 17, 23, 24, 25, 31, 32, 33}
RunBytes == {0, 97, 255}

HuffInputs ==
    {Run(s, n) : s \in RunBytes, n \in RunLengths}
        \cup {Run(97, BLOCK_SIZE - 1), Run(97, BLOCK_SIZE)}
        \cup {<<97, 98>>, <<97, 97, 98>>, Ramp}

\* Payloads a decoder may be handed: a single code of 9 bits and 16 zero
\* bits; codes of 8 and 9 bits; one and two symbols with 1-bit codes; three
\* symbols; four 1-bit codes and one of 15 bits; no code at all.
ReceivedPayloads ==
    {<<1, 97, 9, 0, 0>>,
     <<2, 97, 8, 98, 9, 0, 1>>,
     <<1, 97, 1, 0, 0, 0>>,
     <<2, 97, 1, 98, 1, 165, 90, 195>>,
     <<3, 97, 1, 98, 2, 99, 2, 91, 109, 182, 219>>,
     <<3, 97, 2, 98, 3, 99, 3, 19, 68, 200>>,
     <<5, 97, 1, 98, 1, 99, 1, 100, 1, 101, 15, 0, 0, 0>>,
     <<1, 97, 3, 0, 0, 0, 0>>,
     <<0, 255, 255>>,
     <<1, 97>>}
ExpectedSizes == {1, 2, 3, 8, 40}

InitHuff ==
    /\ h_input \in HuffInputs
    /\ h_payload = <<>> /\ h_expect = 0 /\ h_tree = NoCodebook
    /\ h_st = IdleCursor /\ h_lookups = <<>> /\ h_pc = "start"

InitHuffDecode ==
    /\ h_input = <<>>
    /\ h_payload \in ReceivedPayloads
    /\ h_expect \in ExpectedSizes
    /\ h_tree = NoCodebook
    /\ h_st = IdleCursor /\ h_lookups = <<>> /\ h_pc = "encoded"

\* huff::encode; its caller then decodes with expected_size = input.len().
HuffEncode ==
    /\ h_pc = "start"
    /\ LET e == huff_encode(h_input, overflow_checks)
       IN  /\ h_payload' = e.out
           /\ h_pc' = IF e.kind = "ok" THEN "encoded" ELSE "panicked"
    /\ h_expect' = Len(h_input)
    /\ UNCHANGED <<h_input, h_tree, h_st, h_lookups>>
    /\ UNCHANGED not_huff

\* huff::decode up to its loop: the empty input returns Ok at once;
\* otherwise read_lengths, whose error is returned.
Opened(tree) ==
    /\ h_tree' = tree
    /\ IF tree.kind = "ok"
       THEN /\ h_pc' = "decoding"
            /\ h_st' = [byte_pos |-> 0, bit_pos |-> 0, decoded |-> 0, out |-> <<>>,
                        status |-> "run"]
       ELSE /\ h_pc' = "failed"
            /\ h_st' = h_st

HuffOpen ==
    /\ h_pc = "encoded"
    /\ IF Len(h_payload) = 0
       THEN /\ h_pc' = "done"
            /\ h_st' = [h_st EXCEPT !.status = "done"]
            /\ h_tree' = h_tree
       ELSE Opened(read_lengths(h_payload, overflow_checks))
    /\ UNCHANGED <<h_input, h_payload, h_expect, h_lookups>>
    /\ UNCHANGED not_huff

\* What the loop of huff::decode works on.
HuffCtx ==
    [codes |-> h_tree.codes, table |-> h_tree.fast_decode_table,
     bit_buf |-> SubSeq(h_payload, h_tree.pos + 1, Len(h_payload)),
     expect |-> ToU64(h_expect)]

\* A table lookup at the cursor of st: the entry found, and what decode_slow
\* returns from the same cursor and buffer.
SlowAt(slow) ==
    [ok |-> slow.ok, symbol |-> slow.symbol,
     byte_pos |-> slow.r.byte_pos, bit_pos |-> slow.r.bit_pos]

LookupAt(c, st) ==
    [byte_pos |-> st.byte_pos, bit_pos |-> st.bit_pos,
     entry |-> TableAt(c.table, peek16(c.bit_buf, st.byte_pos, st.bit_pos)),
     slow |-> SlowAt(decode_slow([buffer |-> c.bit_buf, byte_pos |-> st.byte_pos,
                                  bit_pos |-> st.bit_pos], c.codes))]

\* The table lookups of one pass of `while decoded < expect`: none on the
\* path for fewer than 16 bits, else the first and, unless the first left
\* the for loop, the second.
SecondLookup(c, st, first) ==
    IF first.brk THEN <<LookupAt(c, st)>>
    ELSE <<LookupAt(c, st), LookupAt(c, first.st)>>

PassLookups(c, st) ==
    IF st.status # "run" \/ ~BelowU64(st.decoded, c.expect) THEN <<>>
    ELSE IF st.byte_pos * 8 + st.bit_pos >= Len(c.bit_buf) * 8 THEN <<>>
    ELSE IF Len(c.bit_buf) * 8 - (st.byte_pos * 8 + st.bit_pos) < FAST_DECODE_BITS
    THEN <<>>
    ELSE SecondLookup(c, st, DecodeLookup(c, st))

\* One pass of the loop of huff::decode.
Passed(st) ==
    /\ h_st' = st
    /\ h_pc' = IF st.status = "run" THEN "decoding"
               ELSE IF st.status = "hang" THEN "hung" ELSE "done"

HuffPass ==
    /\ h_pc = "decoding"
    /\ Passed(DecodeIter(HuffCtx, h_st))
    /\ h_lookups' = PassLookups(HuffCtx, h_st)
    /\ UNCHANGED <<h_input, h_payload, h_expect, h_tree>>
    /\ UNCHANGED not_huff

(***************************************************************************)
(* utils.rs: a varint written and read back, and a varint received.        *)
(***************************************************************************)
NoVarint == [ok |-> FALSE, value |-> U64Zero, n |-> 0]

VarintIdle ==
    /\ v_value = U64Zero /\ v_suffix = <<>> /\ v_written = <<>> /\ v_bytes = <<>>
    /\ v_read = NoVarint /\ v_pc = "idle"

\* u64 values: the lowest 7-bit group is 0, 1 or 127, the eight that follow
\* are 0 or 127, and bit 63 is 0 or 1.
VarintValues ==
    {d \in [1 .. U64Digits -> {0, 1, 127}] :
        d[U64Digits] < 2 /\ \A i \in 2 .. U64Digits - 1 : d[i] # 1}
Suffixes == {<<>>, <<0>>, <<255, 1>>}

\* Slices a reader may be handed: up to eleven bytes, each 1 or 0xFF; and
\* nine continuation bytes followed by a tenth byte whose payload is 0, 2,
\* 127 or, with the continuation bit, 2.
MaxVarintBytes == 11
TenthBytes == {0, 2, 127, 130}
ReceivedVarints ==
    SeqsUpTo({1, 255}, MaxVarintBytes)
        \cup {[i \in 1 .. 10 |-> IF i < 10 THEN 128 ELSE b] : b \in TenthBytes}
        \cup {[i \in 1 .. 11 |-> IF i < 10 THEN 255 ELSE IF i = 10 THEN b ELSE 0] :
                 b \in TenthBytes}

InitVarint ==
    /\ v_value \in VarintValues
    /\ v_suffix \in Suffixes
    /\ v_written = <<>> /\ v_bytes = <<>> /\ v_read = NoVarint /\ v_pc = "start"

InitVarintRead ==
    /\ v_value = U64Zero /\ v_suffix = <<>> /\ v_written = <<>>
    /\ v_bytes \in ReceivedVarints
    /\ v_read = NoVarint /\ v_pc = "written"

\* write_varint_u64 to an empty writer; the caller's bytes follow.
VarintWrite ==
    /\ v_pc = "start"
    /\ v_written' = write_varint_u64(v_value)
    /\ v_bytes' = write_varint_u64(v_value) \o v_suffix
    /\ v_pc' = "written"
    /\ UNCHANGED <<v_value, v_suffix, v_read>>
    /\ UNCHANGED not_varint

\* read_varint_u64 on the slice.
VarintRead ==
    /\ v_pc = "written"
    /\ v_read' = read_varint_u64(v_bytes)
    /\ v_pc' = "read"
    /\ UNCHANGED <<v_value, v_suffix, v_written, v_bytes>>
    /\ UNCHANGED not_varint

(***************************************************************************)
(* The specifications: one per component, the other components idle.       *)
(***************************************************************************)
\* encode_parallel, then decode_parallel on what it returned.
Init ==
    /\ overflow_checks \in BOOLEAN
    /\ InitStream /\ BlockIdle /\ FooterIdle /\ CacheIdle /\ CallerIdle /\ LicenseIdle
    /\ CodebookIdle /\ HuffIdle /\ VarintIdle
Next ==
    \/ EncStart
    \/ \E i \in DOMAIN enc_results : EncTask(i)
    \/ EncCollect
    \/ DecScan
    \/ \E i \in DOMAIN dec_state : DecTask(i)
    \/ DecCollect
Spec == Init /\ [][Next]_vars

\* decode_parallel on the bytes it is given.
InitSpecDecode ==
    /\ overflow_checks \in BOOLEAN
    /\ InitDecode /\ BlockIdle /\ FooterIdle /\ CacheIdle /\ CallerIdle /\ LicenseIdle
    /\ CodebookIdle /\ HuffIdle /\ VarintIdle
NextDecode ==
    \/ DecScan
    \/ \E i \in DOMAIN dec_state : DecTask(i)
    \/ DecCollect
SpecDecode == InitSpecDecode /\ [][NextDecode]_vars

\* encode_block, then decode_block on what it returned.
InitSpecBlock ==
    /\ overflow_checks \in BOOLEAN
    /\ InitBlock /\ StreamIdle /\ FooterIdle /\ CacheIdle /\ CallerIdle /\ LicenseIdle
    /\ CodebookIdle /\ HuffIdle /\ VarintIdle
NextBlock == EncodeBlock \/ DecodeBlock
SpecBlock == InitSpecBlock /\ [][NextBlock]_vars

\* decode_block on the bytes it is given.
InitSpecBlockDecode ==
    /\ overflow_checks \in BOOLEAN
    /\ InitBlockDecode /\ StreamIdle /\ FooterIdle /\ CacheIdle /\ CallerIdle /\ LicenseIdle
    /\ CodebookIdle /\ HuffIdle /\ VarintIdle
NextBlockDecode == DecodeBlock
SpecBlockDecode == InitSpecBlockDecode /\ [][NextBlockDecode]_vars

\* add_footer, possibly a corruption or a truncation, then verify_footer.
InitSpecFooter ==
    /\ overflow_checks \in BOOLEAN
    /\ InitFooter /\ StreamIdle /\ BlockIdle /\ CacheIdle /\ CallerIdle /\ LicenseIdle
    /\ CodebookIdle /\ HuffIdle /\ VarintIdle
NextFooter == AddFooter \/ Corrupt \/ Truncate \/ VerifyFooter
SpecFooter == InitSpecFooter /\ [][NextFooter]_vars

\* Threads that call read_lengths on the codebooks of an archive.
InitSpecCache ==
    /\ overflow_checks \in BOOLEAN
    /\ InitCache /\ StreamIdle /\ BlockIdle /\ FooterIdle /\ CallerIdle /\ LicenseIdle
    /\ CodebookIdle /\ HuffIdle /\ VarintIdle
NextCache ==
    \/ \E t \in Threads : Lookup(t)
    \/ \E t \in Threads : Get(t)
    \/ \E t \in Threads : WriteLock(t)
    \/ \E t \in Threads : Insert(t)
    \/ \E t \in Threads : Finish(t)
SpecCache == InitSpecCache /\ [][NextCache]_vars

\* The same threads under a scheduler that lets every thread that can take
\* a step take one eventually.
ThreadStep(t) == Lookup(t) \/ Get(t) \/ WriteLock(t) \/ Insert(t) \/ Finish(t)
SpecCacheFair == SpecCache /\ \A t \in Threads : WF_vars(ThreadStep(t))

\* A command that verifies the footer of its input and decodes the payload.
InitSpecCaller ==
    /\ overflow_checks \in BOOLEAN
    /\ InitCaller /\ StreamIdle /\ BlockIdle /\ FooterIdle /\ CacheIdle /\ LicenseIdle
    /\ CodebookIdle /\ HuffIdle /\ VarintIdle
NextCaller ==
    \/ CallerStart
    \/ CallerVerify
    \/ DecScan
    \/ \E i \in DOMAIN dec_state : DecTask(i)
    \/ DecCollect
    \/ CallerCollect
SpecCaller == InitSpecCaller /\ [][NextCaller]_vars

\* Threads that set the license secret while licenses are verified.
InitSpecLicense ==
    /\ overflow_checks \in BOOLEAN
    /\ InitLicense /\ StreamIdle /\ BlockIdle /\ FooterIdle /\ CacheIdle /\ CallerIdle
    /\ CodebookIdle /\ HuffIdle /\ VarintIdle
NextLicense ==
    \/ \E t \in Threads : SetCall(t)
    \/ \E t \in Threads : SetCell(t)
    \/ VerifyLicense
SpecLicense == InitSpecLicense /\ [][NextLicense]_vars

\* A code book built from a block, written, and read back.
InitSpecCodebook ==
    /\ overflow_checks \in BOOLEAN
    /\ InitCodebook /\ StreamIdle /\ BlockIdle /\ FooterIdle /\ CacheIdle /\ CallerIdle
    /\ LicenseIdle /\ HuffIdle /\ VarintIdle
NextCodebook == NewCode \/ WriteLengths \/ ReadLengths
SpecCodebook == InitSpecCodebook /\ [][NextCodebook]_vars

\* huff::encode of a block, then huff::decode of what it wrote.
InitSpecHuff ==
    /\ overflow_checks \in BOOLEAN
    /\ InitHuff /\ StreamIdle /\ BlockIdle /\ FooterIdle /\ CacheIdle /\ CallerIdle
    /\ LicenseIdle /\ CodebookIdle /\ VarintIdle
NextHuff == HuffEncode \/ HuffOpen \/ HuffPass
SpecHuff == InitSpecHuff /\ [][NextHuff]_vars

\* huff::decode of a received payload.
InitSpecHuffDecode ==
    /\ overflow_checks \in BOOLEAN
    /\ InitHuffDecode /\ StreamIdle /\ BlockIdle /\ FooterIdle /\ CacheIdle /\ CallerIdle
    /\ LicenseIdle /\ CodebookIdle /\ VarintIdle
NextHuffDecode == HuffOpen \/ HuffPass
SpecHuffDecode == InitSpecHuffDecode /\ [][NextHuffDecode]_vars

\* write_varint_u64, then read_varint_u64 on what it wrote and a suffix.
InitSpecVarint ==
    /\ overflow_checks \in BOOLEAN
    /\ InitVarint /\ StreamIdle /\ BlockIdle /\ FooterIdle /\ CacheIdle /\ CallerIdle
    /\ LicenseIdle /\ CodebookIdle /\ HuffIdle
NextVarint == VarintWrite \/ VarintRead
SpecVarint == InitSpecVarint /\ [][NextVarint]_vars

\* read_varint_u64 on a received slice.
InitSpecVarintRead ==
    /\ overflow_checks \in BOOLEAN
    /\ InitVarintRead /\ StreamIdle /\ BlockIdle /\ FooterIdle /\ CacheIdle /\ CallerIdle
    /\ LicenseIdle /\ CodebookIdle /\ HuffIdle
NextVarintRead == VarintRead
SpecVarintRead == InitSpecVarintRead /\ [][NextVarintRead]_vars

(***************************************************************************)
(* Properties.                                                             *)
(***************************************************************************)
Ok(bytes) == [kind |-> "ok", out |-> bytes, err |-> <<>>]

\* C1: stream round-trip.  Under Spec, decode_parallel on the output of
\* encode_parallel(x) returns, and what it returns is Ok with exactly x:
\* no decode task hangs, nothing panics, and at the end result = Ok(input).
C1_StreamRoundTrip ==
    /\ pc \notin {"panicked", "hung"}
    /\ \A i \in DOMAIN dec_state : dec_state[i].kind # "hang"
    /\ pc = "done" => result = Ok(input)

\* C2: block round-trip.  Under SpecBlock, decode_block on the output of
\* encode_block(x), |x| <= BLOCK_SIZE, returns Ok with exactly x.
C2_BlockRoundTrip ==
    Len(b_input) <= BLOCK_SIZE =>
        /\ b_pc \notin {"panicked", "hung"}
        /\ b_pc = "done" => b_result = Ok(b_input)

\* C3: footer round-trip.  add_footer(x) is 32 bytes longer than x and
\* begins with x, and verify_footer on it returns Ok with exactly x.
C3_FooterRoundTrip ==
    /\ f_pc = "wrapped" =>
          /\ Len(f_wrapped) = Len(f_data) + 32
          /\ SubSeq(f_wrapped, 1, Len(f_data)) = f_data
    /\ (f_pc = "verified" /\ f_wrapped = add_footer(f_data)) =>
          /\ f_result.kind = "ok"
          /\ f_result.out = f_data

\* C3 witness: a non-empty payload was wrapped and verified unchanged.
C3_Witness ==
    /\ f_pc = "verified"
    /\ f_wrapped = add_footer(f_data)
    /\ Len(f_data) > 0
    /\ f_result.kind = "ok"

OneBitApart(a, b) ==
    /\ Len(a) = Len(b)
    /\ \E j \in DOMAIN b, k \in 0 .. 7 : a = FlipBit(b, j, k)

\* C4: corruption detection.  For a non-empty x, verify_footer on
\* add_footer(x) with any single bit inverted returns an error.
C4_CorruptionDetected ==
    (/\ f_pc = "verified"
     /\ Len(f_data) > 0
     /\ OneBitApart(f_wrapped, add_footer(f_data)))
        => f_result.kind = "err"

\* C4 witness: a bit of the payload part was inverted and verify_footer
\* returned the mismatch.
C4_Witness ==
    /\ f_pc = "verified"
    /\ Len(f_data) > 0
    /\ OneBitApart(f_wrapped, add_footer(f_data))
    /\ SubSeq(f_wrapped, 1, Len(f_data)) # f_data
    /\ f_result.err = "Mismatch"

\* C5: bounded inflation.  Whenever encode_parallel(x) has returned,
\* |encode_parallel(x)| <= |x| + 12 * ceil(|x| / 4096) + 2.
C5_BoundedInflation ==
    pc \in {"encoded", "decoding", "done"} =>
        Len(final_data) <= Len(input) + 12 * ((Len(input) + 4095) \div 4096) + 2

\* C5 witness: encode_parallel returned more bytes than it was given.
C5_Witness ==
    /\ pc = "encoded"
    /\ Len(input) > 0
    /\ Len(final_data) > Len(input)

\* C6: a truncated Huffman block is an error.  When decode_block returns Ok
\* on a Huffman-tagged block whose varint declares n symbols, the output has
\* exactly n bytes.
C6_TruncatedIsError ==
    (/\ b_pc = "done"
     /\ Len(b_block) > 0
     /\ b_block[1] = BlockType_Huffman
     /\ read_varint_u64(Tail(b_block)).ok
     /\ b_result.kind = "ok")
        => ToU64(Len(b_result.out)) = read_varint_u64(Tail(b_block)).value

\* Whether some length prefix met by an exact scan from pos declares a
\* block that extends past the end of data.
RECURSIVE DeclaresOverrun(_, _)
DeclaresOverrun(data, pos) ==
    IF ~(pos < Len(data)) THEN FALSE
    ELSE LET rv == read_varint_u64(SubSeq(data, pos + 1, Len(data)))
         IN  IF ~rv.ok THEN FALSE
             ELSE IF GtU64(rv.value, ToU64(Len(data) - (pos + rv.n))) THEN TRUE
             ELSE DeclaresOverrun(data, pos + rv.n + ToNat(rv.value))

\* C7: framing bounds check.  When a length prefix of the input declares a
\* block that extends past the end of the input, decode_parallel returns an
\* error and decodes no block.
C7_FramingBoundsChecked ==
    (pc \in {"decoding", "done", "hung"} /\ DeclaresOverrun(final_data, 0))
        => /\ pc = "done"
           /\ result.kind = "err"
           /\ dec_order = <<>>

RECURSIVE InIndexOrder(_, _)
InIndexOrder(parts, k) ==
    IF k > Len(parts) THEN <<>> ELSE parts[k].out \o InIndexOrder(parts, k + 1)

\* C8: order preservation.  Whatever the order in which the decode tasks
\* completed, a successful decode_parallel returns the decoded blocks
\* concatenated in the order of their records, block 0 first.
C8_OrderPreserved ==
    (pc = "done" /\ result.kind = "ok" /\ Len(final_data) > 0)
        => result.out = InIndexOrder(dec_state, 1)

\* C8 witness: a later block completed before an earlier one, the two
\* decode to different non-empty outputs, and decode_parallel returned Ok.
C8_Witness ==
    /\ pc = "done"
    /\ result.kind = "ok"
    /\ Len(dec_order) >= 2
    /\ dec_order[1] > dec_order[2]
    /\ dec_state[1].out # dec_state[2].out
    /\ dec_state[1].out # <<>>
    /\ dec_state[2].out # <<>>

\* varint(|b_i|) ++ b_i for i = i .. last, b_i the encoding of the i-th
\* 4096-byte slice of x (i counts from 0).
RECURSIVE SequentialRecords(_, _, _)
SequentialRecords(x, i, checks) ==
    IF 4096 * i >= Len(x) THEN <<>>
    ELSE LET hi == IF 4096 * (i + 1) < Len(x) THEN 4096 * (i + 1) ELSE Len(x)
             b == encode_block(SubSeq(x, 4096 * i + 1, hi), checks).out
         IN  write_varint_u64(ToU64(Len(b))) \o b \o SequentialRecords(x, i + 1, checks)

\* C9: sequentially defined output.  Whatever the order in which the encode
\* tasks completed, encode_parallel(x) is the concatenation, for
\* i = 0 .. ceil(|x| / 4096) - 1, of varint(|b_i|) ++ b_i; it holds
\* ceil(|x| / 4096) records; for the empty x it is empty.
C9_SequentialOutput ==
    /\ pc = "encoded" =>
          /\ final_data = SequentialRecords(input, 0, overflow_checks)
          /\ Len(input) = 0 => final_data = <<>>
    /\ pc = "decoding" => Len(boundaries) = (Len(input) + 4095) \div 4096

\* C9 witness: encode_parallel returned on an input of several chunks, the
\* last one short, after a later chunk's task completed before an earlier one.
C9_Witness ==
    /\ pc = "encoded"
    /\ Len(enc_order) >= 2
    /\ enc_order[1] > enc_order[2]
    /\ Len(input) % 4096 # 0

\* The blocks of the scanned input on which decode_block returns an error.
FailingBlocks ==
    {i \in DOMAIN boundaries :
        DecodeSlice(final_data, boundaries[i][1], boundaries[i][2],
                    overflow_checks).kind = "err"}

\* C10: deterministic error propagation.  When blocks of the input fail to
\* decode, decode_parallel returns the error of the failing block with the
\* lowest index, whatever the order in which the tasks completed.
C10_LowestIndexError ==
    (pc = "done" /\ Len(boundaries) > 0 /\ FailingBlocks # {})
        => LET first == CHOOSE i \in FailingBlocks : \A j \in FailingBlocks : i <= j
           IN  \/ result.kind = "panic"
               \/ /\ result.kind = "err"
                  /\ result.err = DecodeSlice(final_data, boundaries[first][1],
                                              boundaries[first][2], overflow_checks).err

\* C11: in every reachable state, whatever the interleaving of the threads'
\* lookups, evictions and insertions, CODE_CACHE holds at most CACHE_LIMIT
\* entries.
C11_CacheBounded == Cardinality(DOMAIN CODE_CACHE) <= CACHE_LIMIT

\* C11 witness: the cache is full after an eviction: the codebook beyond the
\* limit is cached and one that was inserted before it no longer is.
C11_Witness ==
    /\ Cardinality(DOMAIN CODE_CACHE) = CACHE_LIMIT
    /\ KeyOf(LengthsOf(Book(WarmBooks + 1)).lengths) \in DOMAIN CODE_CACHE
    /\ \E k \in 0 .. WarmBooks :
          KeyOf(LengthsOf(Book(k)).lengths) \notin DOMAIN CODE_CACHE

\* C12: a table that read_lengths handed to a decoder is allocated for as
\* long as the decoder holds it, and no step of any thread (an insertion,
\* the eviction of any key, the table's own included, another decoder's
\* drop) changes it.
C12_EvictionSafe ==
    [][\A t \in Threads :
          /\ thr'[t].pc = "decoding" => arcs'[thr'[t].table].strong > 0
          /\ (thr[t].pc = "decoding" /\ thr'[t].pc = "decoding") =>
                /\ thr'[t].table = thr[t].table
                /\ arcs'[thr[t].table].data = arcs[thr[t].table].data]_vars

\* C12 witness: a decoder holds a table whose key has been evicted, and the
\* table is the one from_lengths builds for that key.
C12_Witness ==
    \E t \in Threads :
        /\ thr[t].pc = "decoding"
        /\ thr[t].key \notin DOMAIN CODE_CACHE
        /\ Cardinality(DOMAIN CODE_CACHE) = CACHE_LIMIT
        /\ arcs[thr[t].table].strong = 1
        /\ arcs[thr[t].table].data =
               from_lengths(VectorOf(thr[t].key), overflow_checks).fast_decode_table

\* C13: footer error classification.  verify_footer(d) returns TooSmall
\* exactly when |d| < 32; for |d| >= 32 it returns the first |d| - 32 bytes
\* exactly when the last 32 bytes are H of those bytes, and otherwise
\* Mismatch with expected = H(first |d| - 32 bytes) and actual = the last 32
\* bytes of d.
C13_FooterErrors ==
    f_pc = "verified" =>
        /\ (f_result.kind = "err" /\ f_result.err = "TooSmall") <=> Len(f_wrapped) < 32
        /\ Len(f_wrapped) >= 32 =>
              /\ f_result.kind = "ok" <=>
                    SubSeq(f_wrapped, Len(f_wrapped) - 31, Len(f_wrapped)) =
                        H(SubSeq(f_wrapped, 1, Len(f_wrapped) - 32))
              /\ f_result.kind = "ok" =>
                    f_result.out = SubSeq(f_wrapped, 1, Len(f_wrapped) - 32)
              /\ f_result.kind # "ok" =>
                    /\ f_result.kind = "err" /\ f_result.err = "Mismatch"
                    /\ f_result.expected = H(SubSeq(f_wrapped, 1, Len(f_wrapped) - 32))
                    /\ f_result.actual =
                          SubSeq(f_wrapped, Len(f_wrapped) - 31, Len(f_wrapped))

\* C13 witness: an input of 33 bytes whose last 32 are not the digest of the
\* first one was given the mismatch, with the two digests apart.
C13_Witness ==
    /\ f_pc = "verified"
    /\ Len(f_wrapped) = 33
    /\ f_wrapped # add_footer(<<f_wrapped[1]>>)
    /\ f_result.err = "Mismatch"
    /\ f_result.expected # f_result.actual
    /\ Len(f_data) = 2

\* C14: verify before decode.  In Decode, Unpack, Cat and bstseal_decode,
\* decode_parallel is invoked only after verify_footer has succeeded on the
\* whole input, and only on the payload it returned; when verification of
\* an input fails the command ends there: that input is not decoded and
\* nothing is output for it, and nothing at all by a command with one input.
C14_VerifyBeforeDecode ==
    /\ \A k \in DOMAIN caller.calls :
          /\ verify_footer(caller.inputs[k]).kind = "ok"
          /\ caller.calls[k] = verify_footer(caller.inputs[k]).out
    /\ caller.pc = "decoding" =>
          /\ Len(caller.calls) = caller.idx
          /\ final_data = caller.calls[caller.idx]
    /\ pc # "idle" => caller.calls # <<>>
    /\ \A o \in DOMAIN caller.out : caller.out[o].entry \in DOMAIN caller.calls
    /\ (caller.pc = "failed" /\ caller.verified.kind = "err") =>
          /\ verify_footer(caller.inputs[caller.idx]).kind = "err"
          /\ Len(caller.calls) = caller.idx - 1
          /\ \A o \in DOMAIN caller.out : caller.out[o].entry < caller.idx
          /\ caller.cmd # "Unpack" => caller.out = <<>> /\ pc = "idle"

\* C14 witness: Unpack wrote its first entry and ended at the second one,
\* whose footer does not match.
C14_Witness ==
    /\ caller.cmd = "Unpack"
    /\ caller.pc = "failed"
    /\ caller.verified.err = "Mismatch"
    /\ caller.idx = 2
    /\ Len(caller.out) = 1
    /\ caller.out[1].data = <<97>>

\* C15: the license secret is write-once.  Of the set_license_secret calls,
\* in the order in which they reach the cell, exactly the first returns true
\* and every later one returns false; the cell holds the first call's
\* argument from then on, and that is the secret every later verify_license
\* uses.
C15_SecretWriteOnce ==
    /\ \A i \in DOMAIN lic_sets : lic_sets[i].ret <=> i = 1
    /\ RUNTIME_SECRET = IF lic_sets = <<>> THEN <<>> ELSE <<lic_sets[1].arg>>
    /\ \A u \in DOMAIN lic_uses :
          lic_uses[u].after > 0 =>
              /\ lic_uses[u].got.ok
              /\ lic_uses[u].got.secret = lic_sets[1].arg
              /\ lic_uses[u].result.err # "MissingSecret"

\* C15 witness: three calls with different arguments reached the cell, a
\* license signed with the first argument was accepted after the second
\* call, and one verified before the first call had been refused.
C15_Witness ==
    /\ Len(lic_sets) = 3
    /\ lic_sets[2].arg # lic_sets[1].arg
    /\ Len(lic_uses) = 2
    /\ lic_uses[1].after = 0 /\ lic_uses[1].result.err = "Signature"
    /\ lic_uses[2].after = 2 /\ lic_uses[2].result.kind = "ok"

\* C16: decoder termination.  For every byte string given to decode_block
\* the Huffman decode loop finishes: no iteration of its main loop leaves the
\* cursor and the count of decoded symbols as they were and goes round again.
C16_DecoderTerminates == b_pc # "hung"

\* The symbols a code book assigns a code to.
Assigned(codes) == {s \in Symbol : codes[s].len > 0}

\* C17: code book serialization round-trip.  For every code book that
\* CanonicalCode::new produces, with k >= 1 assigned symbols, write_lengths
\* emits a count byte equal to k followed by the k (symbol, length) pairs in
\* ascending symbol order, and read_lengths on those bytes reconstructs the
\* same 256 code lengths and code values.
C17_CodebookRoundTrip ==
    LET k == Cardinality(Assigned(cb_code.codes))
    IN  /\ (cb_pc \in {"written", "read"} /\ k >= 1) =>
              /\ cb_bytes[1] = k
              /\ Len(cb_bytes) = 1 + 2 * k
              /\ \A i \in 1 .. k :
                    /\ cb_bytes[2 * i] \in Assigned(cb_code.codes)
                    /\ cb_bytes[2 * i + 1] = cb_code.codes[cb_bytes[2 * i]].len
                    /\ i > 1 => cb_bytes[2 * i - 2] < cb_bytes[2 * i]
        /\ (cb_pc = "read" /\ k >= 1) =>
              /\ cb_read.kind = "ok"
              /\ cb_read.codes = cb_code.codes

\* The Kraft sum of a code book scaled by 2^MAX_CODE_LEN: the sum of
\* 2^(MAX_CODE_LEN - L) over the lengths L of the assigned symbols, taken
\* length by length from len upwards.
RECURSIVE KraftFrom(_, _)
KraftFrom(codes, len) ==
    IF len > MAX_CODE_LEN THEN 0
    ELSE Cardinality({s \in Symbol : codes[s].len = len}) * 2 ^ (MAX_CODE_LEN - len)
            + KraftFrom(codes, len + 1)

KraftSum(codes) == KraftFrom(codes, 1)

\* C18: Kraft validity.  For the frequency table of every block of 1 to
\* BLOCK_SIZE bytes, the lengths CanonicalCode::new assigns (after the clamp
\* to MAX_CODE_LEN) satisfy: the sum of 2^(15 - L) over the assigned symbols is
\* at most 2^15.
C18_KraftValid ==
    (cb_pc # "start" /\ Len(cb_input) \in 1 .. BLOCK_SIZE /\ cb_code.kind = "ok") =>
        KraftSum(cb_code.codes) <= 2 ^ MAX_CODE_LEN

\* The table indexes whose top codes[s].len bits equal the code of s.
PrefixFirst(codes, s) == codes[s].code * 2 ^ (FAST_DECODE_BITS - codes[s].len)
PrefixLast(codes, s) == PrefixFirst(codes, s) + 2 ^ (FAST_DECODE_BITS - codes[s].len) - 1

\* The entries of the table change only where a fill begins or ends: the
\* indexes among those of the prefix of s at which an entry can differ from
\* the entry before it, with the first and the last index of the prefix.
Probes(table, codes, s) ==
    {PrefixFirst(codes, s), PrefixLast(codes, s)}
        \cup {i \in {table[k].start_code : k \in DOMAIN table}
                    \cup {table[k].start_code + table[k].num_entries : k \in DOMAIN table} :
                 PrefixFirst(codes, s) <= i /\ i <= PrefixLast(codes, s)}

\* Every entry of the table with the prefix of s holds (s, its length).
Covered(table, codes, s) ==
    /\ PrefixLast(codes, s) < TABLE_SIZE
    /\ \A i \in Probes(table, codes, s) :
          TableAt(table, i) = [symbol |-> s, len |-> codes[s].len]

\* No code of the code book is a prefix of the code of another symbol.
PrefixFree(codes) ==
    \A s, t \in Assigned(codes) :
        (s # t /\ codes[s].len <= codes[t].len) =>
            codes[t].code \div 2 ^ (codes[t].len - codes[s].len) # codes[s].code

\* C19: fast-table coverage.  For the code book CanonicalCode::new builds
\* from every block of 1 to BLOCK_SIZE bytes and every assigned symbol s with
\* length L: the code of s is below 2^L, all 2^(16 - L) entries of the fast
\* decode table whose top L bits equal that code hold (s, L), and no assigned
\* code is a prefix of another.
C19_FastTableCoverage ==
    (cb_pc = "built" /\ Len(cb_input) \in 1 .. BLOCK_SIZE /\ cb_code.kind = "ok") =>
        /\ \A s \in Assigned(cb_code.codes) :
              /\ cb_code.codes[s].code < 2 ^ cb_code.codes[s].len
              /\ Covered(cb_code.fast_decode_table, cb_code.codes, s)
        /\ PrefixFree(cb_code.codes)

\* All 256 byte values occur in the block, each as often as the others.
EquallyOften(in) ==
    /\ Len(in) > 0 /\ Len(in) % 256 = 0
    /\ \A s \in Symbol : Frequencies(in)[s] = Len(in) \div 256

\* The block the dispatch rule prescribes for an input and its Huffman
\* payload h.
Dispatched(in, h) ==
    IF Len(in) = 0 THEN <<0>>
    ELSE IF Len(h) < Len(in)
    THEN <<1>> \o write_varint_u64(ToU64(Len(in))) \o h
    ELSE <<0>> \o in

\* C20: block dispatch.  For an input of n bytes, 1 <= n <= BLOCK_SIZE, with
\* Huffman payload h (the serialized code book, then the bitstream),
\* encode_block emits tag 1, varint(n), then h exactly when |h| < n, and
\* otherwise tag 0 followed by the input verbatim; for n = 0 it emits the
\* single byte 0.  A 1-byte input and an input in which all 256 values occur
\* equally often are emitted Raw.
C20_BlockDispatch ==
    (b_pc = "encoded" /\ Len(b_input) <= BLOCK_SIZE) =>
        /\ b_block = Dispatched(b_input, huff_encode(b_input, overflow_checks).out)
        /\ (Len(b_input) = 1 \/ EquallyOften(b_input)) => b_block = <<0>> \o b_input

\* C20 witness: encode_block has returned for a block whose Huffman payload
\* is exactly as long as the block, and the block it emitted is Raw.
C20_Witness ==
    /\ b_pc = "encoded"
    /\ Len(b_input) >= 1
    /\ Len(huff_encode(b_input, overflow_checks).out) = Len(b_input)
    /\ b_block = <<BlockType_Raw>> \o b_input

\* C21: the fallback never loses to Raw.  For every input x of at most
\* BLOCK_SIZE bytes the block encode_block returns has at most |x| + 1 bytes:
\* a Huffman block (tag, varint(n), payload) is never longer than the Raw
\* block of the same input.
C21_NeverLosesToRaw ==
    (b_pc = "encoded" /\ Len(b_input) <= BLOCK_SIZE) =>
        Len(b_block) <= Len(b_input) + 1

\* C22: scan progress.  In the boundary scan of decode_parallel, for every
\* input and every 64-bit length prefix (start + len in machine-word
\* arithmetic): each recorded range has start <= end <= |input|, the scan
\* position (the end of the last recorded range, 0 at first) strictly
\* increases with every recorded block, and the scan ends after at most |input|
\* blocks.
C22_ScanProgress ==
    (pc \in {"decoding", "done", "hung"} /\ input = <<>>) =>
        /\ pc # "hung"
        /\ Len(boundaries) <= Len(final_data)
        /\ \A k \in DOMAIN boundaries :
              /\ boundaries[k][1] <= boundaries[k][2]
              /\ boundaries[k][2] <= Len(final_data)
              /\ boundaries[k][2] > (IF k = 1 THEN 0 ELSE boundaries[k - 1][2])

\* The block is n >= 1 copies of one byte value.
IsRun(in) == Len(in) >= 1 /\ \A i \in DOMAIN in : in[i] = in[1]

\* The code book assigns s the length 1 and the code 0, and no other symbol.
OnlyCode(tree, s) ==
    /\ tree.kind = "ok"
    /\ tree.codes[s] = [code |-> 0, len |-> 1]
    /\ \A t \in Symbol \ {s} : tree.codes[t].len = 0

\* C23: single-symbol block.  For a block of n copies of one byte value s,
\* 1 <= n <= BLOCK_SIZE: the code book assigns s length 1 and code 0 and no
\* other symbol, the Huffman payload has 3 + ceil(n / 8) bytes, and decoding
\* the payload with expected_size = n returns and yields exactly n copies of
\* s: the zero padding bits of the last byte produce no extra symbol.
C23_SingleSymbolBlock ==
    /\ h_pc \in {"panicked", "failed", "hung"} =>
          ~(IsRun(h_input) /\ Len(h_input) <= BLOCK_SIZE)
    /\ (h_pc = "encoded" /\ IsRun(h_input) /\ Len(h_input) <= BLOCK_SIZE) =>
          /\ OnlyCode(CanonicalCode_new(Frequencies(h_input), overflow_checks),
                      h_input[1])
          /\ Len(h_payload) = 3 + ((Len(h_input) + 7) \div 8)
    /\ (h_pc = "decoding" /\ Len(h_st.out) > Len(h_input)) =>
          ~(IsRun(h_input) /\ Len(h_input) <= BLOCK_SIZE)
    /\ (h_pc = "done" /\ IsRun(h_input) /\ Len(h_input) <= BLOCK_SIZE) =>
          h_st.out = h_input

\* C23 witness: a run whose length is no multiple of 8, long enough for the
\* table path, has been encoded and decoded back: the last byte of the
\* payload held padding bits.
C23_Witness ==
    /\ h_pc = "done"
    /\ IsRun(h_input)
    /\ Len(h_input) > FAST_DECODE_BITS /\ Len(h_input) % 8 # 0
    /\ h_st.out = h_input

\* A table lookup that found an entry agrees with decode_slow from the same
\* cursor: decode_slow returns the entry's symbol and has advanced by the
\* entry's length.
AgreesWithSlow(l) ==
    l.entry.len > 0 =>
        /\ l.slow.ok
        /\ l.slow.symbol = l.entry.symbol
        /\ l.slow.byte_pos * 8 + l.slow.bit_pos
              = l.byte_pos * 8 + l.bit_pos + l.entry.len

\* C24: the fast path equals the slow path.  For every code book, bit buffer
\* and cursor at which the decoder makes a table lookup (both lookups of an
\* unrolled pass, the second also when fewer than 16 bits remain and the peek
\* is zero-padded), the symbol emitted and the number of bits advanced equal
\* what decode_slow returns from the same cursor and buffer, and the lookup
\* yields no symbol when decode_slow yields none.
C24_FastEqualsSlow ==
    \A k \in DOMAIN h_lookups : AgreesWithSlow(h_lookups[k])

\* The serialized code book holds all the pairs its count announces, and one
\* of them carries a length above MAX_CODE_LEN.
HasOversized(in) ==
    /\ LengthsOf(in).ok
    /\ \E i \in 1 .. in[1] : in[2 * i + 1] > MAX_CODE_LEN

\* C25: an oversized code length is rejected.  read_lengths returns an error
\* whenever a serialized (symbol, length) pair carries a length above 15,
\* whether the key is cached or not and also when a later pair for the same
\* symbol carries a valid length; and it never returns a code book that holds
\* a length above 15.
C25_OversizedRejected ==
    \A t \in Threads :
        thr[t].pc \in {"missed", "writing", "decoding"} =>
            /\ ~HasOversized(thr[t].book)
            /\ \A i \in DOMAIN thr[t].key : thr[t].key[i][2] <= MAX_CODE_LEN

\* C26: varint round-trip.  For every u64 v and every byte suffix t,
\* write_varint_u64(v) emits k bytes, 1 <= k <= 10, that hold the 7-bit groups
\* of v least significant first with bit 0x80 set on all but the last, and
\* read_varint_u64 on those bytes followed by t returns (v, k).
C26_VarintRoundTrip ==
    /\ v_pc \in {"written", "read"} /\ v_written # <<>> =>
          /\ Len(v_written) \in 1 .. 10
          /\ \A i \in 1 .. U64Digits :
                IF i <= Len(v_written)
                THEN /\ v_written[i] % 128 = v_value[i]
                     /\ (v_written[i] >= 128) <=> (i < Len(v_written))
                ELSE v_value[i] = 0
    /\ v_pc = "read" /\ v_written # <<>> =>
          v_read = [ok |-> TRUE, value |-> v_value, n |-> Len(v_written)]

\* C26 witness: 2^64 - 1 was written in ten bytes and read back with a
\* suffix behind it.
C26_Witness ==
    /\ v_pc = "read"
    /\ v_value = [i \in 1 .. U64Digits |-> IF i = U64Digits THEN 1 ELSE 127]
    /\ Len(v_written) = 10 /\ v_suffix # <<>>
    /\ v_read.ok /\ v_read.value = v_value /\ v_read.n = 10

\* The indexes of the bytes of r without the continuation bit.
Terminators(r) == {i \in DOMAIN r : r[i] < 128}

\* C27: varint read failures.  read_varint_u64 returns no value when the
\* input is empty, when it ends before a byte without the continuation bit,
\* and when its first 10 bytes all carry the continuation bit; in every other
\* case it returns a value and a consumed count between 1 and 10 (the index of
\* the first byte without the continuation bit).
C27_VarintReadFailures ==
    v_pc = "read" =>
        IF Terminators(v_bytes) = {} \/ (\A i \in Terminators(v_bytes) : i > 10)
        THEN ~v_read.ok
        ELSE /\ v_read.ok
             /\ v_read.n \in 1 .. 10
             /\ v_read.n \in Terminators(v_bytes)
             /\ \A i \in Terminators(v_bytes) : v_read.n <= i

\* C27 witness: a slice of eleven bytes whose first ten carry the
\* continuation bit and whose eleventh does not has been read, and no value
\* was returned.
C27_Witness ==
    /\ v_pc = "read"
    /\ Len(v_bytes) = 11
    /\ Terminators(v_bytes) = {11}
    /\ ~v_read.ok

\* C28: varint value exactness.  Whenever read_varint_u64 returns (value, k),
\* value is the sum over i < k of (byte_i & 0x7F) * 2^(7 i) as a mathematical
\* integer: group i of the value is the payload of byte i and the groups from
\* k on are 0; an encoding whose value does not fit in 64 bits is rejected.
C28_VarintValueExact ==
    (v_pc = "read" /\ v_read.ok) =>
        \A i \in 1 .. U64Digits :
            v_read.value[i] = IF i <= v_read.n THEN v_bytes[i] % 128 ELSE 0

\* In the cache and heap given, the entry of key holds the table that
\* from_lengths builds from the lengths of the key, none of which is above
\* MAX_CODE_LEN.
PureEntry(cache, heap, key, checks) ==
    /\ \A i \in DOMAIN key : key[i][2] <= MAX_CODE_LEN
    /\ heap[cache[key]].strong > 0
    /\ heap[cache[key]].data = from_lengths(VectorOf(key), checks).fast_decode_table

\* The step filed a table under key or put another table in its place.
Refiled(key) ==
    \/ key \notin DOMAIN CODE_CACHE
    \/ CODE_CACHE'[key] # CODE_CACHE[key]
    \/ arcs'[CODE_CACHE'[key]].data # arcs[CODE_CACHE[key]].data

\* C29: cache entries are pure functions of their key.  In every reachable
\* state, under every interleaving of concurrent read_lengths calls (two
\* threads that miss on the same key included), each cache entry K -> T has
\* every length of K at most 15 and T equal to the fast decode table built
\* from the canonical codes of K; so a hit returns the table a miss builds.
\* Stated as: it holds of every entry at the start, every step leaves each
\* entry's table allocated, and every entry a step files or replaces is such
\* an entry.
C29_EntriesPure ==
    /\ \A key \in DOMAIN CODE_CACHE : PureEntry(CODE_CACHE, arcs, key, overflow_checks)
    /\ [][\A key \in DOMAIN CODE_CACHE' :
             /\ arcs'[CODE_CACHE'[key]].strong > 0
             /\ Refiled(key) => PureEntry(CODE_CACHE', arcs', key, overflow_checks)]_vars

\* C29 witness: two threads missed on the same key, built a table each and
\* both inserted it; the cache holds the table of the one that came last.
C29_Witness ==
    \E t, u \in Threads :
        /\ t # u
        /\ thr[t].pc = "decoding" /\ thr[u].pc = "decoding"
        /\ thr[t].key = thr[u].key
        /\ thr[t].table # thr[u].table
        /\ thr[t].key \in DOMAIN CODE_CACHE
        /\ CODE_CACHE[thr[t].key] = thr[u].table

\* No thread that is about to take, or holds, the write lock still holds the
\* read lock; while a thread holds the write lock no thread holds the read
\* lock; the write lock is held by at most one thread, the one under it.
LockDiscipline ==
    /\ \A t \in Threads :
          thr[t].pc \in {"missed", "writing"} => t \notin rwlock.readers
    /\ rwlock.writer # 0 => rwlock.readers = {}
    /\ {t \in Threads : thr[t].pc = "writing"}
          = (IF rwlock.writer = 0 THEN {} ELSE {rwlock.writer})
    /\ rwlock.readers = {t \in Threads : thr[t].pc = "reading"}

\* Thread t is inside read_lengths past the parse; read_lengths has returned
\* to it.
InsideReadLengths(t) == thr[t].pc \in {"reading", "missed", "writing"}
Returned(t) == thr[t].pc \in {"decoding", "failed"}

\* C30: cache lock discipline.  No thread requests the write lock of the
\* cache while it still holds the read lock, at most one thread holds the
\* write lock and then none holds the read lock (several may hold the read
\* lock at once); and under fair scheduling every call of read_lengths by any
\* of the concurrent decoders eventually returns.
C30_LockDiscipline ==
    /\ []LockDiscipline
    /\ \A t \in Threads : InsideReadLengths(t) ~> Returned(t)

\* C30 witness: two threads hold the read lock at once while a third call
\* has yet to come.
C30_Witness ==
    /\ Cardinality(rwlock.readers) >= 2
    /\ rwlock.writer = 0
    /\ next_block < Len(archive)

====
